---- MODULE Spec2Model ----
(***************************************************************************)
(* Issue tracker REST backend: the Issue Store and the User Store, the     *)
(* issue CRUD handlers, the auth handlers and authMiddleware, the          *)
(* dashboard and the general and per-user analytics.  Each client runs one *)
(* request handler at a time; a handler takes one step per store operation *)
(* it awaits, so handlers of different clients interleave between their    *)
(* reads and their writes.  The aggregations of one dashboard or analytics *)
(* request are taken together, on one snapshot of the store, where         *)
(* requests come one after the other; the fan-out actions run each         *)
(* sub-query of a Promise.all at its own step, between the writes of other *)
(* requests, and let it fail.  connectDB and its retry timer are the       *)
(* start of the process.                                                   *)
(***************************************************************************)
EXTENDS Integers, Sequences, FiniteSets, TLC

\* ---------------------------------------------------------------- bounds
MaxIssues == 1
MaxDashboardIssues == 2
MaxAnalyticsIssues == 2
MaxTrendIssues == 3
MaxTopIssues == 3
MaxAuthIssues == 1
MaxCrudIssues == 2
MaxRetries == 24
MaxFailureIssues == 2
MaxFanOutIssues == 1
MaxTime == 1
NumClients == 2
MaxUsers == 2

\* ------------------------------------------------------- program constants
HighPriorityLimit == 5

\* ------------------------------------------------------------ value spaces
Clients == 1..NumClients
UserIds == 1..MaxUsers

NoDate == -1
NoUser == 0
NoId == 0
NoToken == -2
BadToken == -1

\* a path parameter that is no ObjectId
InvalidId == -1

\* mongoose.Types.ObjectId.isValid(userId), and the cast of a path parameter
\* to the _id of a query, on the ids the clients send
ObjectIdIsValid(id) == id >= 1

IssueStatus == {"Open", "In Progress", "Resolved", "Closed"}
IssuePriority == {"Low", "Medium", "High", "Critical"}
IssueSeverity == {"Minor", "Major", "Critical"}

VARIABLES
    issues,       \* Issue collection: id -> document
    nextIssueId,  \* next fresh issue id
    users,        \* User collection: id -> document
    nextUserId,   \* next fresh user id
    clock,        \* wall clock read by Date.now() and the timestamps plugin
    pc,           \* per client: position inside the handler awaiting the store
    req,          \* per client: the request whose handler is awaiting
    loc,          \* per client: handler locals held across the await
    out,          \* the response sent by the last step, with its request
    moved,        \* history: issues an update has moved into Resolved/Closed
    db            \* the store connection: MONGODB_URI, connectDB's position

vars == <<issues, nextIssueId, users, nextUserId, clock, pc, req, loc, out,
          moved, db>>

\* ------------------------------------------------------------- connection
\* connectDB has run with MONGODB_URI defined (uri) or not, is awaiting
\* mongoose.connect ("connecting"), has scheduled its next run with
\* setTimeout ("retryWait") or has returned connected; retries counts the
\* runs it has scheduled, up to MaxRetries
Connection(uri, state, retries) ==
    [uri |-> uri, state |-> state, retries |-> retries]

\* the connection the request handlers work on
Established == Connection(TRUE, "connected", 0)

\* --------------------------------------------------------------- requests
\* A request body; "" / NoUser / NoDate model an absent (or falsy) field.
EmptyBody ==
    [title |-> "", description |-> "", status |-> "", priority |-> "",
     severity |-> "", assignedTo |-> NoUser, createdBy |-> NoUser,
     resolvedAt |-> NoDate, name |-> "", email |-> "", password |-> ""]

\* auth is what the Authorization header holds: the user a verified token
\* was signed for (NoUser when its payload names none), NoToken or BadToken
Request(op, u, id, b) ==
    [op |-> op, caller |-> u, id |-> id, body |-> b, auth |-> u]
NoReq == Request("", NoUser, NoId, EmptyBody)
\* locals of a handler: the issue and the user it read, its reading of the
\* clock, and the results of the sub-queries of its Promise.all so far
NoLoc ==
    [status |-> "", resolvedAt |-> NoDate, name |-> "", email |-> "",
     now |-> NoDate, parts |-> <<>>]

\* a response; ops is the set of store operations the handler issued for the
\* request, data the statistics of a dashboard or analytics response
Reply(code, msg) ==
    [code |-> code, msg |-> msg, id |-> NoId, list |-> <<>>, token |-> NoUser,
     ops |-> {}, data |-> <<>>]

\* the response r of a handler that issued the store operations q
After(q, r) == [r EXCEPT !.ops = q]
ReplyIssue(id) == [Reply(200, "issue") EXCEPT !.id = id]
ReplyList(l) == [Reply(200, "dashboard") EXCEPT !.list = l]

Sent(c, rq, r) == [client |-> c, req |-> rq, resp |-> r]
NoOut == Sent(0, NoReq, Reply(0, ""))

\* ------------------------------------------------------------- Issue model
\* express-validator chain of POST /api/issues
CreateIssueValid(b) ==
    /\ b.title # ""
    /\ b.description # ""
    /\ (b.priority # "" => b.priority \in IssuePriority)
    /\ (b.severity # "" => b.severity \in IssueSeverity)

\* Schema validation run by save(): enums and required paths
IssueSchemaValid(d) ==
    /\ d.title # ""
    /\ d.description # ""
    /\ d.status \in IssueStatus
    /\ d.priority \in IssuePriority
    /\ d.severity \in IssueSeverity
    /\ d.createdBy # NoUser

\* fault: createdBy spread after the caller's id, so the body's value wins
NewIssueLeaked(b, u, now) ==
    [title |-> b.title,
     description |-> b.description,
     status |-> IF b.status = "" THEN "Open" ELSE b.status,
     priority |-> IF b.priority = "" THEN "Medium" ELSE b.priority,
     severity |-> IF b.severity = "" THEN "Minor" ELSE b.severity,
     createdBy |-> IF b.createdBy = NoUser THEN u ELSE b.createdBy,
     assignedTo |-> b.assignedTo,
     resolvedAt |-> b.resolvedAt,
     createdAt |-> now]

\* new Issue({...req.body, createdBy: req.user?.id}) with the schema's
\* defaults; createdAt is set by save() (timestamps: true)
NewIssue(b, u, now) ==
    [title |-> b.title,
     description |-> b.description,
     status |-> IF b.status = "" THEN "Open" ELSE b.status,
     priority |-> IF b.priority = "" THEN "Medium" ELSE b.priority,
     severity |-> IF b.severity = "" THEN "Minor" ELSE b.severity,
     createdBy |-> u,
     assignedTo |-> b.assignedTo,
     resolvedAt |-> b.resolvedAt,
     createdAt |-> now]

\* updateFields of updateIssue: the six whitelisted fields when truthy, and
\* resolvedAt = Date.now() when the requested status is Resolved or Closed
\* and differs from the status read by findById
StampsResolvedAt(b, readStatus) ==
    /\ b.status # ""
    /\ (b.status = "Resolved" \/ b.status = "Closed")
    /\ readStatus # b.status

\* fault: the whole body is written, absent fields included
ApplyUpdateWhole(d, b, readStatus, now) ==
    [d EXCEPT
        !.title = b.title,
        !.description = b.description,
        !.status = b.status,
        !.priority = b.priority,
        !.severity = b.severity,
        !.assignedTo = b.assignedTo,
        !.resolvedAt = IF StampsResolvedAt(b, readStatus) THEN now ELSE @]

\* findByIdAndUpdate(id, {$set: updateFields}, {new: true}); update
\* validators are off
ApplyUpdate(d, b, readStatus, now) ==
    [d EXCEPT
        !.title = IF b.title # "" THEN b.title ELSE @,
        !.description = IF b.description # "" THEN b.description ELSE @,
        !.status = IF b.status # "" THEN b.status ELSE @,
        !.priority = IF b.priority # "" THEN b.priority ELSE @,
        !.severity = IF b.severity # "" THEN b.severity ELSE @,
        !.assignedTo = IF b.assignedTo # NoUser THEN b.assignedTo ELSE @,
        !.resolvedAt = IF StampsResolvedAt(b, readStatus) THEN now ELSE @]

\* the write changes the stored status of d to Resolved or Closed
MovesIntoResolved(d, b) ==
    /\ b.status \in {"Resolved", "Closed"}
    /\ d.status # b.status

\* a handler returns: its response goes out and its locals are dropped
Finish(c, rq, r) ==
    /\ pc' = [pc EXCEPT ![c] = "idle"]
    /\ req' = [req EXCEPT ![c] = NoReq]
    /\ loc' = [loc EXCEPT ![c] = NoLoc]
    /\ out' = Sent(c, rq, r)
    /\ UNCHANGED db

\* a handler awaits its next store operation
Await(c, rq, at, l) ==
    /\ pc' = [pc EXCEPT ![c] = at]
    /\ req' = [req EXCEPT ![c] = rq]
    /\ loc' = [loc EXCEPT ![c] = l]
    /\ out' = NoOut
    /\ UNCHANGED db

\* POST /api/issues
CreateIssue(c, u, b) ==
    /\ pc[c] = "idle"
    /\ LET rq == Request("createIssue", u, NoId, b)
       IN IF ~CreateIssueValid(b)
          THEN /\ Finish(c, rq, Reply(400, "errors"))
               /\ UNCHANGED <<issues, nextIssueId>>
          ELSE IF ~IssueSchemaValid(NewIssue(b, u, clock))
          THEN /\ Finish(c, rq, After({"Issue.save"}, Reply(500, "Server error")))
               /\ UNCHANGED <<issues, nextIssueId>>
          ELSE /\ issues' = issues @@ (nextIssueId :> NewIssue(b, u, clock))
               /\ nextIssueId' = nextIssueId + 1
               /\ Finish(c, rq, After({"Issue.save"}, ReplyIssue(nextIssueId)))
    /\ UNCHANGED <<users, nextUserId, clock, moved>>

\* fault: the catch block answers every error alike
CaughtAsServerError(kind) == Reply(500, "Server error")

\* the catch block of the issue handlers: the CastError of a malformed id
\* (err.kind === "ObjectId") is answered 404, any other error 500
Caught(kind) ==
    IF kind = "ObjectId" THEN Reply(404, "Issue not found")
    ELSE Reply(500, "Server error")

\* GET /api/issues/:id
GetIssueById(c, id) ==
    /\ pc[c] = "idle"
    /\ LET rq == Request("getIssueById", NoUser, id, EmptyBody)
       IN IF ~ObjectIdIsValid(id)
          THEN Finish(c, rq, After({"Issue.findById"}, Caught("ObjectId")))
          ELSE IF id \notin DOMAIN issues
          THEN Finish(c, rq, After({"Issue.findById"},
                                   Reply(404, "Issue not found")))
          ELSE Finish(c, rq, After({"Issue.findById"}, ReplyIssue(id)))
    /\ UNCHANGED <<issues, nextIssueId, users, nextUserId, clock, moved>>

\* PUT /api/issues/:id, up to the end of findById
UpdateIssueFind(c, id, b) ==
    /\ pc[c] = "idle"
    /\ LET rq == Request("updateIssue", NoUser, id, b)
       IN IF ~ObjectIdIsValid(id)
          THEN Finish(c, rq, After({"Issue.findById"}, Caught("ObjectId")))
          ELSE IF id \notin DOMAIN issues
          THEN Finish(c, rq, After({"Issue.findById"},
                                   Reply(404, "Issue not found")))
          ELSE Await(c, rq, "updateWrite",
                     [NoLoc EXCEPT !.status = issues[id].status,
                                   !.resolvedAt = issues[id].resolvedAt])
    /\ UNCHANGED <<issues, nextIssueId, users, nextUserId, clock, moved>>

\* PUT /api/issues/:id, from the build of updateFields to the response; the
\* update casts updateFields to the schema, and an assignedTo that is no
\* ObjectId makes it throw the CastError the catch block answers 404
UpdateIssueWrite(c) ==
    /\ pc[c] = "updateWrite"
    /\ LET id == req[c].id
           b == req[c].body
       IN IF b.assignedTo # NoUser /\ ~ObjectIdIsValid(b.assignedTo)
          THEN /\ UNCHANGED <<issues, moved>>
               /\ Finish(c, req[c],
                         After({"Issue.findById", "Issue.findByIdAndUpdate"},
                               Caught("ObjectId")))
          ELSE IF id \in DOMAIN issues
          THEN /\ issues' = [issues EXCEPT
                                ![id] = ApplyUpdate(@, b, loc[c].status, clock)]
               /\ moved' = IF MovesIntoResolved(issues[id], b)
                           THEN moved \cup {id} ELSE moved
               /\ Finish(c, req[c],
                         After({"Issue.findById", "Issue.findByIdAndUpdate"},
                               ReplyIssue(id)))
          ELSE /\ UNCHANGED <<issues, moved>>
               /\ Finish(c, req[c],
                         After({"Issue.findById", "Issue.findByIdAndUpdate"},
                               Reply(200, "null")))
    /\ UNCHANGED <<nextIssueId, users, nextUserId, clock>>

\* DELETE /api/issues/:id, up to the end of findById
DeleteIssueFind(c, id) ==
    /\ pc[c] = "idle"
    /\ LET rq == Request("deleteIssue", NoUser, id, EmptyBody)
       IN IF ~ObjectIdIsValid(id)
          THEN Finish(c, rq, After({"Issue.findById"}, Caught("ObjectId")))
          ELSE IF id \notin DOMAIN issues
          THEN Finish(c, rq, After({"Issue.findById"},
                                   Reply(404, "Issue not found")))
          ELSE Await(c, rq, "deleteWrite", NoLoc)
    /\ UNCHANGED <<issues, nextIssueId, users, nextUserId, clock, moved>>

\* DELETE /api/issues/:id, issue.deleteOne() and the response
DeleteIssueWrite(c) ==
    /\ pc[c] = "deleteWrite"
    /\ issues' = [i \in DOMAIN issues \ {req[c].id} |-> issues[i]]
    /\ Finish(c, req[c], After({"Issue.findById", "Issue.deleteOne"},
                                Reply(200, "Issue removed")))
    /\ UNCHANGED <<nextIssueId, users, nextUserId, clock, moved>>

\* passage of time between two reads of the clock
Tick ==
    /\ clock < MaxTime
    /\ clock' = clock + 1
    /\ out' = NoOut
    /\ UNCHANGED <<issues, nextIssueId, users, nextUserId, pc, req, loc, moved,
                   db>>

\* ------------------------------------------------------------- dashboard
\* UTF-8 code units of the priority strings the store can hold
CharCodes(s) ==
    CASE s = "Critical" -> <<67, 114, 105, 116, 105, 99, 97, 108>>
      [] s = "High" -> <<72, 105, 103, 104>>
      [] s = "Low" -> <<76, 111, 119>>
      [] s = "Medium" -> <<77, 101, 100, 105, 117, 109>>
      [] s = "Urgent" -> <<85, 114, 103, 101, 110, 116>>
      [] OTHER -> <<>>

\* binary string comparison used by the store's sort on a string field
RECURSIVE SeqLess(_, _)
SeqLess(a, b) ==
    IF b = <<>> THEN FALSE
    ELSE IF a = <<>> THEN TRUE
    ELSE IF Head(a) # Head(b) THEN Head(a) < Head(b)
    ELSE SeqLess(Tail(a), Tail(b))

StringLess(s, t) == SeqLess(CharCodes(s), CharCodes(t))

\* filter of the high priority query
HighPriorityMatch(u) ==
    {i \in DOMAIN issues :
        /\ issues[i].assignedTo = u
        /\ issues[i].priority \in {"High", "Critical"}
        /\ issues[i].status # "Closed"}

\* .sort({ priority: -1, createdAt: -1 }): a may be returned before b
SortMayPrecede(a, b) ==
    \/ StringLess(issues[b].priority, issues[a].priority)
    \/ /\ issues[b].priority = issues[a].priority
       /\ issues[a].createdAt >= issues[b].createdAt

\* every order the store may return for the sort (ties are unordered)
SortedOrders(S) ==
    {s \in [1..Cardinality(S) -> S] :
        /\ \A i, j \in 1..Cardinality(S) : i # j => s[i] # s[j]
        /\ \A i, j \in 1..Cardinality(S) :
               i < j => SortMayPrecede(s[i], s[j])}

Limit(s, n) == IF Len(s) <= n THEN s ELSE SubSeq(s, 1, n)

\* .select("title status priority severity createdAt")
Selected(i) ==
    [id |-> i, title |-> issues[i].title, status |-> issues[i].status,
     priority |-> issues[i].priority, severity |-> issues[i].severity,
     createdAt |-> issues[i].createdAt]

HighPriorityAssigned(u) ==
    {[k \in 1..Len(Limit(s, HighPriorityLimit)) |-> Selected(s[k])] :
        s \in SortedOrders(HighPriorityMatch(u))}

\* ------------------------------------------------------------- statistics
\* The clock counts days.  The calendar arithmetic of Date is taken with
\* months of DaysPerMonth days and years of MonthsPerYear months.
DaysPerWeek == 7
DaysPerMonth == 30
MonthsPerYear == 12
TopLimit == 10

\* todayStart.setHours(0, 0, 0, 0)
TodayStart(now) == now
\* weekStart.setDate(weekStart.getDate() - 7)
WeekStart(now) == now - DaysPerWeek
\* monthStart.setMonth(monthStart.getMonth() - 1)
MonthStart(now) == now - DaysPerMonth
\* yearStart.setFullYear(yearStart.getFullYear() - 1)
YearStart(now) == now - DaysPerMonth * MonthsPerYear

\* { $year: "$createdAt" } and { $month: "$createdAt" }
YearOf(t) == t \div (DaysPerMonth * MonthsPerYear)
MonthOf(t) == ((t % (DaysPerMonth * MonthsPerYear)) \div DaysPerMonth) + 1

\* fault: the created scope also takes the issues assigned to u
CreatedByOrAssigned(u) ==
    {i \in DOMAIN issues : issues[i].createdBy = u \/ issues[i].assignedTo = u}

\* { $match: { createdBy: userObjectId } }
CreatedBy(u) == {i \in DOMAIN issues : issues[i].createdBy = u}

\* fault: the assigned scope takes the issues assigned to any user
AssignedToAnyone(u) == {i \in DOMAIN issues : issues[i].assignedTo # NoUser}

\* { $match: { assignedTo: userObjectId } }
AssignedTo(u) == {i \in DOMAIN issues : issues[i].assignedTo = u}

\* countDocuments({ ..., status }) and statusData[status] || 0
StatusCount(S, st) == Cardinality({i \in S : issues[i].status = st})

\* fault: only the values of the schema's enumerations get a group
GroupsOfEnums(S, f) ==
    {[key |-> k, count |-> Cardinality({i \in S : issues[i][f] = k})] :
        k \in {x \in {issues[i][f] : i \in S} :
                  f = "status" => x \in IssueStatus}}

\* { $group: { _id: "$f", count: { $sum: 1 } } } over the issues S
Groups(S, f) ==
    {[key |-> k, count |-> Cardinality({i \in S : issues[i][f] = k})] :
        k \in {issues[i][f] : i \in S}}

\* every order in which the store may return the groups G: any order, and
\* after { $sort: { count: -1 } } any order with the counts descending
GroupOrders(G, sorted) ==
    {s \in [1..Cardinality(G) -> G] :
        /\ \A j, k \in 1..Cardinality(G) : j # k => s[j] # s[k]
        /\ sorted => \A j, k \in 1..Cardinality(G) :
                         j < k => s[j].count >= s[k].count}

\* (num / den).toFixed(places): the digits before and after the point
ToFixed(num, den, places) ==
    LET scale == 10 ^ places
        r == (2 * num * scale + den) \div (2 * den)
    IN <<r \div scale, r % scale>>

\* fault: the division is not guarded, 0 / 0 gives "NaN" (written <<-1>>)
PercentageUnguarded(count, total) ==
    IF total > 0 THEN ToFixed(count * 100, total, 1) ELSE <<-1>>

\* total > 0 ? ((count / total) * 100).toFixed(1) : "0"; <<0>> is "0"
Percentage(count, total) ==
    IF total > 0 THEN ToFixed(count * 100, total, 1) ELSE <<0>>

\* the breakdown lists the response may carry for field f of the issues S
Breakdown(S, f, sorted) ==
    {[k \in 1..Len(s) |->
         [key |-> s[k].key, count |-> s[k].count,
          percentage |-> Percentage(s[k].count, Cardinality(S))]] :
        s \in GroupOrders(Groups(S, f), sorted)}

\* $sum of $cond [$gte createdAt, start] per window
TimeBased(S, now) ==
    [today |-> Cardinality({i \in S : issues[i].createdAt >= TodayStart(now)}),
     thisWeek |-> Cardinality({i \in S : issues[i].createdAt >= WeekStart(now)}),
     thisMonth |-> Cardinality({i \in S : issues[i].createdAt >= MonthStart(now)}),
     thisYear |-> Cardinality({i \in S : issues[i].createdAt >= YearStart(now)})]

\* fault: the time is measured up to now, not up to resolvedAt
ResolutionTimeToNow(i) == clock - issues[i].createdAt

\* { $subtract: ["$resolvedAt", "$createdAt"] }, in days
ResolutionTime(i) == issues[i].resolvedAt - issues[i].createdAt

RECURSIVE SumTimes(_)
SumTimes(S) ==
    IF S = {} THEN 0
    ELSE LET i == CHOOSE x \in S : TRUE
         IN ResolutionTime(i) + SumTimes(S \ {i})

\* parseFloat(x > 0 ? (x / msPerDay).toFixed(2) : "0") for x = num / den,
\* in hundredths of a day
ResolutionDays(num, den) ==
    IF num > 0
    THEN LET f == ToFixed(num, den, 2) IN f[1] * 100 + f[2]
    ELSE 0

\* the resolution block: $match resolvedAt set, $avg / $min / $max / $sum,
\* and the defaults used when the aggregation returns no row
Resolution(S) ==
    LET R == {i \in S : issues[i].resolvedAt # NoDate}
        times == {ResolutionTime(i) : i \in R}
    IN [totalResolved |-> Cardinality(R),
        avgResolutionDays |->
            IF R = {} THEN 0 ELSE ResolutionDays(SumTimes(R), Cardinality(R)),
        minResolutionDays |->
            IF R = {} THEN 0
            ELSE ResolutionDays(CHOOSE t \in times : \A x \in times : t <= x, 1),
        maxResolutionDays |->
            IF R = {} THEN 0
            ELSE ResolutionDays(CHOOSE t \in times : \A x \in times : t >= x, 1),
        resolutionRate |-> Percentage(Cardinality(R), Cardinality(S))]

\* fault: the trend has no lower bound on createdAt
InTrendWindowAlways(t, now) == TRUE

\* { $match: { createdAt: { $gte: yearStart } } }
InTrendWindow(t, now) == t >= YearStart(now)

\* { $sort: { "_id.year": 1, "_id.month": 1 } }
MonthBefore(a, b) ==
    \/ a.year < b.year
    \/ a.year = b.year /\ a.month < b.month

\* trends.monthlyTrend: one entry per (year, month) of the issues of S in
\* the window, ascending
MonthlyTrend(S, now) ==
    LET W == {i \in S : InTrendWindow(issues[i].createdAt, now)}
        B == {[year |-> YearOf(issues[i].createdAt),
               month |-> MonthOf(issues[i].createdAt),
               count |-> Cardinality(
                   {j \in W :
                       /\ YearOf(issues[j].createdAt) = YearOf(issues[i].createdAt)
                       /\ MonthOf(issues[j].createdAt) = MonthOf(issues[i].createdAt)})] :
                 i \in W}
    IN CHOOSE s \in GroupOrders(B, FALSE) :
           \A j, k \in 1..Len(s) : j < k => MonthBefore(s[j], s[k])

\* the statistics of the issues S at time now, one record per result the
\* store may return
ScopeStatistics(S, now, sorted) ==
    {[total |-> Cardinality(S),
      open |-> StatusCount(S, "Open"),
      inProgress |-> StatusCount(S, "In Progress"),
      resolved |-> StatusCount(S, "Resolved"),
      closed |-> StatusCount(S, "Closed"),
      unresolved |-> Cardinality({i \in S :
                                     issues[i].status \notin {"Resolved", "Closed"}}),
      timeBased |-> TimeBased(S, now),
      status |-> st, priority |-> pr, severity |-> sv,
      resolution |-> Resolution(S),
      trend |-> MonthlyTrend(S, now)] :
        st \in Breakdown(S, "status", sorted),
        pr \in Breakdown(S, "priority", sorted),
        sv \in Breakdown(S, "severity", sorted)}

\* fault: the lookup keeps the entries without a user record
UnwindUserKept(s) == s

\* $lookup from users, then $unwind "$user": an entry without a user record
\* is dropped
UnwindUser(s) == SelectSeq(s, LAMBDA g : g.key \in DOMAIN users)

\* topCreators / topAssignees: $group by actor f over S, $sort count -1,
\* $limit 10, $lookup, $unwind, $project
TopActors(S, f) ==
    {LET known == UnwindUser(Limit(s, TopLimit))
     IN [k \in 1..Len(known) |->
            [userId |-> known[k].key,
             name |-> IF known[k].key \in DOMAIN users
                      THEN users[known[k].key].name ELSE "",
             email |-> IF known[k].key \in DOMAIN users
                       THEN users[known[k].key].email ELSE "",
             count |-> known[k].count]] :
        s \in GroupOrders(Groups(S, f), TRUE)}

ReplyData(msg, d) == [Reply(200, msg) EXCEPT !.data = d]

\* the groups g with the percentage of each count in total
WithPercent(g, total) ==
    [k \in 1..Len(g) |->
        [key |-> g[k].key, count |-> g[k].count,
         percentage |-> Percentage(g[k].count, total)]]

\* groups.find((s) => s._id === key)?.count || 0, and data[key] || 0 on the
\* object reduced from the groups
CountOf(g, key) ==
    LET hits == {k \in 1..Len(g) : g[k].key = key}
    IN IF hits = {} THEN 0 ELSE g[CHOOSE k \in hits : TRUE].count

\* the $facet aggregation over the issues created by u: total, the three
\* breakdowns and the time windows, one record per result the store may
\* return
FacetCreated(u, now) ==
    {[total |-> Cardinality(CreatedBy(u)),
      status |-> st, priority |-> pr, severity |-> sv,
      timeBased |-> TimeBased(CreatedBy(u), now)] :
        st \in GroupOrders(Groups(CreatedBy(u), "status"), FALSE),
        pr \in GroupOrders(Groups(CreatedBy(u), "priority"), FALSE),
        sv \in GroupOrders(Groups(CreatedBy(u), "severity"), FALSE)}

\* the $facet aggregation over the issues assigned to u
FacetAssigned(u) ==
    {[total |-> Cardinality(AssignedTo(u)),
      status |-> st,
      unresolved |->
          Cardinality({i \in AssignedTo(u) :
                          issues[i].status \notin {"Resolved", "Closed"}})] :
        st \in GroupOrders(Groups(AssignedTo(u), "status"), FALSE)}

\* fault: assignedToMe is taken from the created scope
DashboardOfCreated(my, as) ==
    [myIssues |-> my.total,
     assignedToMe |-> my.total,
     myOpenIssues |-> CountOf(my.status, "Open"),
     myInProgressIssues |-> CountOf(my.status, "In Progress"),
     myResolvedIssues |-> CountOf(my.status, "Resolved"),
     myClosedIssues |-> CountOf(my.status, "Closed"),
     assignedOpen |-> CountOf(as.status, "Open"),
     assignedInProgress |-> CountOf(as.status, "In Progress"),
     unresolvedAssigned |-> as.unresolved,
     timeBased |-> [today |-> my.timeBased.today,
                    thisWeek |-> my.timeBased.thisWeek,
                    thisMonth |-> my.timeBased.thisMonth],
     status |-> WithPercent(my.status, my.total),
     priority |-> WithPercent(my.priority, my.total),
     severity |-> WithPercent(my.severity, my.total),
     byStatus |-> [st \in IssueStatus |-> CountOf(my.status, st)]]

\* the userStats, timeBased, breakdowns and charts.byStatus the handler
\* composes from the results my and as of the two $facet aggregations
DashboardOf(my, as) ==
    [myIssues |-> my.total,
     assignedToMe |-> as.total,
     myOpenIssues |-> CountOf(my.status, "Open"),
     myInProgressIssues |-> CountOf(my.status, "In Progress"),
     myResolvedIssues |-> CountOf(my.status, "Resolved"),
     myClosedIssues |-> CountOf(my.status, "Closed"),
     assignedOpen |-> CountOf(as.status, "Open"),
     assignedInProgress |-> CountOf(as.status, "In Progress"),
     unresolvedAssigned |-> as.unresolved,
     timeBased |-> [today |-> my.timeBased.today,
                    thisWeek |-> my.timeBased.thisWeek,
                    thisMonth |-> my.timeBased.thisMonth],
     status |-> WithPercent(my.status, my.total),
     priority |-> WithPercent(my.priority, my.total),
     severity |-> WithPercent(my.severity, my.total),
     byStatus |-> [st \in IssueStatus |-> CountOf(my.status, st)]]

\* the dashboard statistics of u with both aggregations taken on one
\* snapshot of the store
DashboardData(u, now) ==
    {DashboardOf(my, as) : my \in FacetCreated(u, now), as \in FacetAssigned(u)}

\* GET /api/dashboard: the two $facet aggregations and the high priority
\* list, run together
GetDashboard(c, u) ==
    /\ pc[c] = "idle"
    /\ LET rq == Request("getDashboard", u, NoId, EmptyBody)
       IN IF u = NoUser
          THEN Finish(c, rq, Reply(401, "User not authenticated"))
          ELSE \E l \in HighPriorityAssigned(u), d \in DashboardData(u, clock) :
                   Finish(c, rq, After({"Issue.aggregate", "Issue.find"},
                                       [ReplyList(l) EXCEPT !.data = d]))
    /\ UNCHANGED <<issues, nextIssueId, users, nextUserId, clock, moved>>

\* the dashboard statistics of u as the sequential handler takes them: one
\* countDocuments per figure, three aggregations for the breakdowns, and
\* charts.byStatus from the four status counts
SequentialDashboardData(u, now) ==
    LET my == CreatedBy(u)
        as == AssignedTo(u)
        myIssues == Cardinality(my)
    IN {[myIssues |-> myIssues,
         assignedToMe |-> Cardinality(as),
         myOpenIssues |-> StatusCount(my, "Open"),
         myInProgressIssues |-> StatusCount(my, "In Progress"),
         myResolvedIssues |-> StatusCount(my, "Resolved"),
         myClosedIssues |-> StatusCount(my, "Closed"),
         assignedOpen |-> StatusCount(as, "Open"),
         assignedInProgress |-> StatusCount(as, "In Progress"),
         unresolvedAssigned |->
             Cardinality({i \in as :
                             issues[i].status \notin {"Resolved", "Closed"}}),
         timeBased |->
             [today |-> Cardinality({i \in my :
                            issues[i].createdAt >= TodayStart(now)}),
              thisWeek |-> Cardinality({i \in my :
                               issues[i].createdAt >= WeekStart(now)}),
              thisMonth |-> Cardinality({i \in my :
                                issues[i].createdAt >= MonthStart(now)})],
         status |-> WithPercent(st, myIssues),
         priority |-> WithPercent(pr, myIssues),
         severity |-> WithPercent(sv, myIssues),
         byStatus |-> [k \in IssueStatus |-> StatusCount(my, k)]] :
            st \in GroupOrders(Groups(my, "status"), FALSE),
            pr \in GroupOrders(Groups(my, "priority"), FALSE),
            sv \in GroupOrders(Groups(my, "severity"), FALSE)}

\* GET /api/dashboard as the sequential handler serves it, with no write of
\* another request between its reads
GetDashboardSequential(c, u) ==
    /\ pc[c] = "idle"
    /\ LET rq == Request("getDashboard", u, NoId, EmptyBody)
       IN IF u = NoUser
          THEN Finish(c, rq, Reply(401, "User not authenticated"))
          ELSE \E l \in HighPriorityAssigned(u),
                  d \in SequentialDashboardData(u, clock) :
                   Finish(c, rq, After({"Issue.countDocuments",
                                        "Issue.aggregate", "Issue.find"},
                                       [ReplyList(l) EXCEPT !.data = d]))
    /\ UNCHANGED <<issues, nextIssueId, users, nextUserId, clock, moved>>

\* GET /api/analytics: the counts, breakdowns, windows, resolution, top
\* lists and trend over every issue, run together; now is the handler's
\* reading of the clock, which the JSON body does not carry
GeneralAnalytics(now) ==
    {[now |-> now,
      overview |-> a,
      topCreators |-> tc,
      topAssignees |-> ta] :
        a \in ScopeStatistics(DOMAIN issues, now, TRUE),
        tc \in TopActors(DOMAIN issues, "createdBy"),
        ta \in TopActors({i \in DOMAIN issues : issues[i].assignedTo # NoUser},
                         "assignedTo")}

GetGeneralAnalytics(c, u) ==
    /\ pc[c] = "idle"
    /\ \E d \in GeneralAnalytics(clock) :
           Finish(c, Request("getGeneralAnalytics", u, NoId, EmptyBody),
                  After({"Issue.countDocuments", "Issue.aggregate"},
                        ReplyData("analytics", d)))
    /\ UNCHANGED <<issues, nextIssueId, users, nextUserId, clock, moved>>

\* fault: the whole user document goes into the response
WholeUser(id, l) ==
    [id |-> id, name |-> l.name, email |-> l.email, password |-> "hash"]

\* user: { id: user._id, name: user.name, email: user.email }
PublicUser(id, l) == [id |-> id, name |-> l.name, email |-> l.email]

\* the statistics of getUserAnalytics: created scope and assigned scope
UserAnalytics(id, l, now) ==
    {[now |-> now,
      user |-> PublicUser(id, l),
      created |-> m,
      assigned |-> [total |-> Cardinality(AssignedTo(id)),
                    unresolved |->
                        Cardinality({i \in AssignedTo(id) :
                            issues[i].status \notin {"Resolved", "Closed"}}),
                    status |-> st]] :
        m \in ScopeStatistics(CreatedBy(id), now, FALSE),
        st \in Breakdown(AssignedTo(id), "status", FALSE)}

\* GET /api/analytics/user/:userId, up to the end of User.findById
GetUserAnalyticsFind(c, u, id) ==
    /\ pc[c] = "idle"
    /\ LET rq == Request("getUserAnalytics", u, id, EmptyBody)
       IN IF ~ObjectIdIsValid(id)
          THEN Finish(c, rq, Reply(400, "Invalid user ID"))
          ELSE IF id \notin DOMAIN users
          THEN Finish(c, rq, After({"User.findById"},
                                   Reply(404, "User not found")))
          ELSE Await(c, rq, "userAnalytics",
                     [NoLoc EXCEPT !.name = users[id].name,
                                   !.email = users[id].email])
    /\ UNCHANGED <<issues, nextIssueId, users, nextUserId, clock, moved>>

\* GET /api/analytics/user/:userId, the aggregations and the response
GetUserAnalyticsAggregate(c) ==
    /\ pc[c] = "userAnalytics"
    /\ \E d \in UserAnalytics(req[c].id, loc[c], clock) :
           Finish(c, req[c], After({"User.findById", "Issue.aggregate"},
                                   ReplyData("userAnalytics", d)))
    /\ UNCHANGED <<issues, nextIssueId, users, nextUserId, clock, moved>>

\* ---------------------------------------------------------------- fan-out
\* The sub-queries of a handler's Promise.all are separate reads: the store
\* runs each at its own step, in any order, between the writes of other
\* requests.  The handler composes its response when all have returned and
\* answers from its catch block as soon as one is rejected.
SubQueries(op) ==
    CASE op = "getGeneralAnalytics" ->
             {"total", "status", "priority", "severity", "timeBased",
              "resolution", "topCreators", "topAssignees", "trend"}
      [] op = "getUserAnalytics" ->
             {"created", "assigned", "timeBased", "resolution", "trend"}
      [] op = "getDashboard" ->
             {"myIssues", "assignedIssues", "recentIssues", "highPriority"}
      [] OTHER -> {}

\* the store operations behind the sub-queries, with the lookup before them
FanOutOps(op) ==
    CASE op = "getGeneralAnalytics" -> {"Issue.countDocuments", "Issue.aggregate"}
      [] op = "getUserAnalytics" -> {"User.findById", "Issue.aggregate"}
      [] OTHER -> {"Issue.aggregate", "Issue.find"}

\* the results the store may return for sub-query q of request rq, whose
\* handler read the clock at now; the recent lists are not part of the
\* model's responses
SubQueryResults(rq, q, now) ==
    LET S == IF rq.op = "getGeneralAnalytics" THEN DOMAIN issues
             ELSE CreatedBy(rq.id)
    IN CASE q = "total" -> {Cardinality(S)}
         [] q \in {"status", "priority", "severity"} ->
                GroupOrders(Groups(S, q), TRUE)
         [] q = "timeBased" -> {TimeBased(S, now)}
         [] q = "resolution" -> {Resolution(S)}
         [] q = "trend" -> {MonthlyTrend(S, now)}
         [] q = "topCreators" -> TopActors(DOMAIN issues, "createdBy")
         [] q = "topAssignees" ->
                TopActors({i \in DOMAIN issues : issues[i].assignedTo # NoUser},
                          "assignedTo")
         [] q = "created" -> FacetCreated(rq.id, now)
         [] q = "assigned" -> FacetAssigned(rq.id)
         [] q = "myIssues" -> FacetCreated(rq.caller, now)
         [] q = "assignedIssues" -> FacetAssigned(rq.caller)
         [] q = "highPriority" -> HighPriorityAssigned(rq.caller)
         [] OTHER -> {<<>>}

\* the resolution block with the rate taken against the total of the
\* handler's own count
RateAgainst(r, total) ==
    [r EXCEPT !.resolutionRate = Percentage(r.totalResolved, total)]

\* the body getGeneralAnalytics composes from the results p
JoinGeneralAnalytics(p, now) ==
    [now |-> now,
     overview |->
         [total |-> p.total,
          open |-> CountOf(p.status, "Open"),
          inProgress |-> CountOf(p.status, "In Progress"),
          resolved |-> CountOf(p.status, "Resolved"),
          closed |-> CountOf(p.status, "Closed"),
          timeBased |-> p.timeBased,
          status |-> WithPercent(p.status, p.total),
          priority |-> WithPercent(p.priority, p.total),
          severity |-> WithPercent(p.severity, p.total),
          resolution |-> RateAgainst(p.resolution, p.total),
          trend |-> p.trend],
     topCreators |-> p.topCreators,
     topAssignees |-> p.topAssignees]

\* the body getUserAnalytics composes from the results p and the user l
JoinUserAnalytics(p, id, l, now) ==
    [now |-> now,
     user |-> PublicUser(id, l),
     created |->
         [total |-> p.created.total,
          open |-> CountOf(p.created.status, "Open"),
          inProgress |-> CountOf(p.created.status, "In Progress"),
          resolved |-> CountOf(p.created.status, "Resolved"),
          closed |-> CountOf(p.created.status, "Closed"),
          timeBased |-> p.timeBased,
          status |-> WithPercent(p.created.status, p.created.total),
          priority |-> WithPercent(p.created.priority, p.created.total),
          severity |-> WithPercent(p.created.severity, p.created.total),
          resolution |-> RateAgainst(p.resolution, p.created.total),
          trend |-> p.trend],
     assigned |->
         [total |-> p.assigned.total,
          unresolved |-> p.assigned.unresolved,
          status |-> WithPercent(p.assigned.status, p.assigned.total)]]

\* the response composed after Promise.all has resolved
Joined(rq, l) ==
    CASE rq.op = "getGeneralAnalytics" ->
             ReplyData("analytics", JoinGeneralAnalytics(l.parts, l.now))
      [] rq.op = "getUserAnalytics" ->
             ReplyData("userAnalytics",
                       JoinUserAnalytics(l.parts, rq.id, l, l.now))
      [] OTHER ->
             [ReplyList(l.parts.highPriority) EXCEPT
                 !.data = DashboardOf(l.parts.myIssues, l.parts.assignedIssues)]

\* fault: the results that have arrived are sent when a sub-query fails
RejectedPartial(rq, l) == ReplyData("partial", l.parts)

\* the catch block after Promise.all has rejected
Rejected(rq, l) == Reply(500, "Server error")

\* the handler reads the clock and hands its sub-queries to Promise.all
FanOut(c, rq, l) ==
    Await(c, rq, "fanOut", [l EXCEPT !.now = clock, !.parts = <<>>])

\* GET /api/analytics, up to the await of Promise.all
GetGeneralAnalyticsFanOut(c, u) ==
    /\ pc[c] = "idle"
    /\ FanOut(c, Request("getGeneralAnalytics", u, NoId, EmptyBody), NoLoc)
    /\ UNCHANGED <<issues, nextIssueId, users, nextUserId, clock, moved>>

\* GET /api/dashboard, up to the await of Promise.all
GetDashboardFanOut(c, u) ==
    /\ pc[c] = "idle"
    /\ LET rq == Request("getDashboard", u, NoId, EmptyBody)
       IN IF u = NoUser
          THEN Finish(c, rq, Reply(401, "User not authenticated"))
          ELSE FanOut(c, rq, NoLoc)
    /\ UNCHANGED <<issues, nextIssueId, users, nextUserId, clock, moved>>

\* GET /api/analytics/user/:userId, from the user found to the await of
\* Promise.all
GetUserAnalyticsFanOut(c) ==
    /\ pc[c] = "userAnalytics"
    /\ FanOut(c, req[c], loc[c])
    /\ UNCHANGED <<issues, nextIssueId, users, nextUserId, clock, moved>>

\* the store runs sub-query q of client c's request and returns its result
SubQueryReturns(c, q) ==
    /\ pc[c] = "fanOut"
    /\ q \in SubQueries(req[c].op) \ DOMAIN loc[c].parts
    /\ \E r \in SubQueryResults(req[c], q, loc[c].now) :
           Await(c, req[c], "fanOut", [loc[c] EXCEPT !.parts = @ @@ (q :> r)])
    /\ UNCHANGED <<issues, nextIssueId, users, nextUserId, clock, moved>>

\* sub-query q fails: Promise.all rejects, the results of the others are
\* dropped and the catch block answers
SubQueryFails(c, q) ==
    /\ pc[c] = "fanOut"
    /\ q \in SubQueries(req[c].op) \ DOMAIN loc[c].parts
    /\ Finish(c, req[c], After(FanOutOps(req[c].op), Rejected(req[c], loc[c])))
    /\ UNCHANGED <<issues, nextIssueId, users, nextUserId, clock, moved>>

\* every sub-query has returned: Promise.all resolves and the handler
\* composes and sends its response
FanIn(c) ==
    /\ pc[c] = "fanOut"
    /\ DOMAIN loc[c].parts = SubQueries(req[c].op)
    /\ Finish(c, req[c], After(FanOutOps(req[c].op), Joined(req[c], loc[c])))
    /\ UNCHANGED <<issues, nextIssueId, users, nextUserId, clock, moved>>

\* time passes up to a later instant t; the last response stays as sent
Pass(t) ==
    /\ t > clock
    /\ clock' = t
    /\ UNCHANGED <<issues, nextIssueId, users, nextUserId, pc, req, loc, out,
                   moved, db>>

\* -------------------------------------------------------------- User model
MinPasswordLength == 6

\* character counts of the passwords the clients send
StringLength(s) ==
    CASE s = "secret1" -> 7
      [] s = "secret2" -> 7
      [] s = "abc" -> 3
      [] OTHER -> 0

\* isEmail() of express-validator, on the addresses the clients send
IsEmail(e) == e \in {"a@x.io", "b@x.io"}

\* validator chain of POST /api/auth/register
RegisterValid(b) ==
    /\ b.name # ""
    /\ IsEmail(b.email)
    /\ StringLength(b.password) >= MinPasswordLength

\* validator chain of PUT /api/auth/me (both fields optional)
UpdateUserValid(b) == b.email # "" => IsEmail(b.email)

\* bcrypt.hash(password, salt)
Hash(p) == <<"bcrypt", p>>

\* new User({ name, email, password }) with user.password = hash
NewUser(b) == [name |-> b.name, email |-> b.email, password |-> Hash(b.password)]

\* fault: the lookup never finds a user
FindOneByEmailMissing(e) == NoUser

\* User.findOne({ email }): the id of the first match, NoUser for null

FindOneByEmail(e) ==
    LET found == {u \in DOMAIN users : users[u].email = e}
    IN IF found = {} THEN NoUser
       ELSE CHOOSE u \in found : \A v \in found : u <= v

\* fault: the result of the lookup is not tested
EmailConflictIgnored(existing, u) == FALSE

\* updateUser's test on the findOne result

EmailConflict(existing, u) == existing # NoUser /\ existing # u

\* fault: the collection has no unique index on email
UniqueIndexOff(e, self) == TRUE

\* the unique index on email: a write of e to document self is accepted
\* only if no other document holds e

UniqueIndexAllows(e, self) ==
    \A u \in DOMAIN users \ {self} : users[u].email # e

ReplyUser(id, n, e) ==
    [Reply(200, "user") EXCEPT !.id = id, !.token = id, !.list = <<n, e>>]

\* POST /api/auth/register, up to the end of findOne
RegisterFind(c, b) ==
    /\ pc[c] = "idle"
    /\ LET rq == Request("register", NoUser, NoId, b)
       IN IF ~RegisterValid(b)
          THEN Finish(c, rq, Reply(400, "errors"))
          ELSE IF FindOneByEmail(b.email) # NoUser
          THEN Finish(c, rq, After({"User.findOne"},
                                   Reply(400, "User already exists")))
          ELSE Await(c, rq, "registerSave", NoLoc)
    /\ UNCHANGED <<issues, nextIssueId, users, nextUserId, clock, moved>>

\* POST /api/auth/register, user.save() and the signed token
RegisterSave(c) ==
    /\ pc[c] = "registerSave"
    /\ LET b == req[c].body
       IN IF UniqueIndexAllows(b.email, NoUser)
          THEN /\ users' = users @@ (nextUserId :> NewUser(b))
               /\ nextUserId' = nextUserId + 1
               /\ Finish(c, req[c],
                         After({"User.findOne", "User.save"},
                               ReplyUser(nextUserId, b.name, b.email)))
          ELSE /\ UNCHANGED <<users, nextUserId>>
               /\ Finish(c, req[c], After({"User.findOne", "User.save"},
                                          Reply(500, "Server error")))
    /\ UNCHANGED <<issues, nextIssueId, clock, moved>>

\* PUT /api/auth/me, up to the end of findById
UpdateUserFind(c, u, b) ==
    /\ pc[c] = "idle"
    /\ LET rq == Request("updateUser", u, NoId, b)
       IN IF ~UpdateUserValid(b)
          THEN Finish(c, rq, Reply(400, "errors"))
          ELSE IF u = NoUser
          THEN Finish(c, rq, Reply(401, "User not authenticated"))
          ELSE IF u \notin DOMAIN users
          THEN Finish(c, rq, After({"User.findById"},
                                   Reply(404, "User not found")))
          ELSE Await(c, rq,
                     IF b.email # "" /\ b.email # users[u].email
                     THEN "updateUserCheck" ELSE "updateUserSave",
                     [NoLoc EXCEPT !.name = users[u].name,
                                   !.email = users[u].email])
    /\ UNCHANGED <<issues, nextIssueId, users, nextUserId, clock, moved>>

\* PUT /api/auth/me, the findOne of the new email
UpdateUserCheck(c) ==
    /\ pc[c] = "updateUserCheck"
    /\ IF EmailConflict(FindOneByEmail(req[c].body.email), req[c].caller)
       THEN Finish(c, req[c], After({"User.findById", "User.findOne"},
                                    Reply(400, "Email already exists")))
       ELSE Await(c, req[c], "updateUserSave", loc[c])
    /\ UNCHANGED <<issues, nextIssueId, users, nextUserId, clock, moved>>

\* PUT /api/auth/me, user.save() of the modified paths and the response
UpdateUserSave(c) ==
    /\ pc[c] = "updateUserSave"
    /\ LET u == req[c].caller
           b == req[c].body
           newEmail == IF b.email # "" THEN b.email ELSE loc[c].email
           newName == IF b.name # "" THEN b.name ELSE loc[c].name
           q == {"User.findById", "User.save"}
                \cup IF b.email # "" /\ b.email # loc[c].email
                     THEN {"User.findOne"} ELSE {}
       IN IF u \notin DOMAIN users
          THEN /\ UNCHANGED users
               /\ Finish(c, req[c], After(q, Reply(500, "Server error")))
          ELSE IF newEmail # loc[c].email /\ ~UniqueIndexAllows(newEmail, u)
          THEN /\ UNCHANGED users
               /\ Finish(c, req[c], After(q, Reply(500, "Server error")))
          ELSE /\ users' = [users EXCEPT
                               ![u].email = IF newEmail # loc[c].email
                                            THEN newEmail ELSE @,
                               ![u].name = IF newName # loc[c].name
                                           THEN newName ELSE @]
               /\ Finish(c, req[c], After(q, ReplyUser(u, newName, newEmail)))
    /\ UNCHANGED <<issues, nextIssueId, nextUserId, clock, moved>>

\* DELETE /api/auth/me, up to the end of findById
DeleteUserFind(c, u) ==
    /\ pc[c] = "idle"
    /\ LET rq == Request("deleteUser", u, NoId, EmptyBody)
       IN IF u = NoUser
          THEN Finish(c, rq, Reply(401, "User not authenticated"))
          ELSE IF u \notin DOMAIN users
          THEN Finish(c, rq, After({"User.findById"},
                                   Reply(404, "User not found")))
          ELSE Await(c, rq, "deleteUserWrite", NoLoc)
    /\ UNCHANGED <<issues, nextIssueId, users, nextUserId, clock, moved>>

\* fault: the delete takes every user record
WithoutAnyUser(u) == <<>>

\* user.deleteOne(): the collection without the document of u
WithoutUser(u) == [v \in DOMAIN users \ {u} |-> users[v]]

\* DELETE /api/auth/me, user.deleteOne() and the response
DeleteUserWrite(c) ==
    /\ pc[c] = "deleteUserWrite"
    /\ users' = WithoutUser(req[c].caller)
    /\ Finish(c, req[c], After({"User.findById", "User.deleteOne"},
                                Reply(200, "User account deleted successfully")))
    /\ UNCHANGED <<issues, nextIssueId, nextUserId, clock, moved>>

\* validator chain of POST /api/auth/login
LoginValid(b) == IsEmail(b.email) /\ b.password # ""

\* bcrypt.compare(password, user.password)
Compare(p, h) == h = Hash(p)

\* fault: an unknown email gets an answer of its own
LoginRefusalTelling(u) ==
    IF u = NoUser THEN Reply(404, "User not found")
    ELSE Reply(400, "Invalid credentials")

\* the answer of login when findOne returned u = NoUser and when the
\* password does not match that of the user u found
LoginRefusal(u) == Reply(400, "Invalid credentials")

\* POST /api/auth/login
Login(c, b) ==
    /\ pc[c] = "idle"
    /\ LET rq == Request("login", NoUser, NoId, b)
           u == FindOneByEmail(b.email)
       IN IF ~LoginValid(b)
          THEN Finish(c, rq, Reply(400, "errors"))
          ELSE IF u = NoUser \/ ~Compare(b.password, users[u].password)
          THEN Finish(c, rq, After({"User.findOne"}, LoginRefusal(u)))
          ELSE Finish(c, rq, After({"User.findOne"},
                                   ReplyUser(u, users[u].name, users[u].email)))
    /\ UNCHANGED <<issues, nextIssueId, users, nextUserId, clock, moved>>

\* holders of a token: every id a token was ever signed for, or none
TokenHolders == 1..(nextUserId - 1)

\* fault: only a missing token is refused
AuthDeniedIfMissing(t) ==
    IF t = NoToken THEN "No token, authorization denied" ELSE ""

\* authMiddleware: the message of its 401, "" when jwt.verify accepts the
\* token and next() is called
AuthDenied(t) ==
    IF t = NoToken THEN "No token, authorization denied"
    ELSE IF t \notin TokenHolders \cup {NoUser} THEN "Token is not valid"
    ELSE ""

\* req.user = decoded.user
Decoded(t) == IF t \in TokenHolders THEN t ELSE NoUser

\* authMiddleware answering a request to the protected route op itself
AuthMiddleware(c, t, op) ==
    /\ pc[c] = "idle"
    /\ AuthDenied(t) # ""
    /\ Finish(c, [Request(op, NoUser, NoId, EmptyBody) EXCEPT !.auth = t],
              Reply(401, AuthDenied(t)))
    /\ UNCHANGED <<issues, nextIssueId, users, nextUserId, clock, moved>>

\* -------------------------------------------------------------- connectDB
\* the catch block of connectDB: setTimeout(() => { connectDB(); }, 5000)
ScheduledRetry(d) == [d EXCEPT !.state = "retryWait"]

\* connectDB throws: MONGODB_URI is not defined, or mongoose.connect
\* rejects (no server selected within serverSelectionTimeoutMS)
ConnectFails ==
    /\ db.state = "connecting"
    /\ db' = ScheduledRetry(db)
    /\ UNCHANGED <<issues, nextIssueId, users, nextUserId, clock, pc, req, loc,
                   out, moved>>

\* mongoose.connect resolves
ConnectSucceeds ==
    /\ db.state = "connecting"
    /\ db.uri
    /\ db' = [db EXCEPT !.state = "connected"]
    /\ UNCHANGED <<issues, nextIssueId, users, nextUserId, clock, pc, req, loc,
                   out, moved>>

\* the timer fires and connectDB runs again
RetryFires ==
    /\ db.state = "retryWait"
    /\ db' = [db EXCEPT !.state = "connecting",
                        !.retries = IF @ < MaxRetries THEN @ + 1 ELSE @]
    /\ UNCHANGED <<issues, nextIssueId, users, nextUserId, clock, pc, req, loc,
                   out, moved>>

\* ------------------------------------------------- requests of the clients
IssueBody == [EmptyBody EXCEPT !.title = "t", !.description = "d"]

\* POST /api/issues bodies: plain, with an initial status, with fields the
\* handler is meant to control, and bodies the validators reject
CreateBodies ==
    {IssueBody,
     [IssueBody EXCEPT !.status = "Resolved"],
     [IssueBody EXCEPT !.status = "Pending"],
     [IssueBody EXCEPT !.priority = "Urgent"],
     [IssueBody EXCEPT !.title = ""],
     [IssueBody EXCEPT !.createdBy = 2, !.resolvedAt = 0]}

\* PUT /api/issues/:id bodies
UpdateBodies ==
    {[EmptyBody EXCEPT !.status = s] :
        s \in {"Open", "Resolved", "Closed", "Pending"}}
    \cup {[EmptyBody EXCEPT !.priority = "Urgent", !.severity = "Blocker",
                            !.createdBy = 2, !.resolvedAt = 0,
                            !.assignedTo = 1]}

\* bodies of the dashboard scenario: priorities and assignment
DashboardCreateBodies ==
    {[IssueBody EXCEPT !.priority = p, !.assignedTo = 1] :
        p \in {"High", "Critical"}}
    \cup {[IssueBody EXCEPT !.assignedTo = 1]}

DashboardUpdateBodies ==
    {[EmptyBody EXCEPT !.status = "Closed"],
     [EmptyBody EXCEPT !.priority = "Urgent"]}

\* --------------------------------------------------------- specifications
InitClients ==
    /\ clock = 0
    /\ pc = [c \in Clients |-> "idle"]
    /\ req = [c \in Clients |-> NoReq]
    /\ loc = [c \in Clients |-> NoLoc]
    /\ out = NoOut
    /\ moved = {}

\* the issue handlers, run by clients holding the tokens of the users
Init ==
    /\ issues = <<>>
    /\ nextIssueId = 1
    /\ users = <<>>
    /\ nextUserId = 1
    /\ InitClients
    /\ db = Established

NextIssues ==
    \/ \E c \in Clients, u \in UserIds, b \in CreateBodies :
           nextIssueId <= MaxIssues /\ CreateIssue(c, u, b)
    \/ \E c \in Clients, id \in 1..MaxIssues, b \in UpdateBodies :
           UpdateIssueFind(c, id, b)
    \/ \E c \in Clients : UpdateIssueWrite(c)
    \/ \E c \in Clients, id \in 1..MaxIssues : DeleteIssueFind(c, id)
    \/ \E c \in Clients : DeleteIssueWrite(c)
    \/ Tick

SpecIssues == Init /\ [][NextIssues]_vars

NextDashboard ==
    \/ \E c \in Clients, u \in UserIds, b \in DashboardCreateBodies :
           nextIssueId <= MaxDashboardIssues /\ CreateIssue(c, u, b)
    \/ \E c \in Clients, id \in 1..MaxDashboardIssues,
          b \in DashboardUpdateBodies : UpdateIssueFind(c, id, b)
    \/ \E c \in Clients : UpdateIssueWrite(c)
    \/ \E c \in Clients, u \in UserIds \cup {NoUser} : GetDashboard(c, u)
    \/ Tick

SpecDashboard == Init /\ [][NextDashboard]_vars

\* bodies of the auth requests
RegisterBodies ==
    {[EmptyBody EXCEPT !.name = "n", !.email = e, !.password = "secret1"] :
        e \in {"a@x.io", "b@x.io"}}
    \cup {[EmptyBody EXCEPT !.name = "n", !.email = "a@x.io", !.password = "abc"]}

UpdateUserBodies ==
    {[EmptyBody EXCEPT !.email = e] : e \in {"a@x.io", "b@x.io"}}
    \cup {[EmptyBody EXCEPT !.name = "m", !.email = e] :
             e \in {"a@x.io", "b@x.io"}}
    \cup {[EmptyBody EXCEPT !.name = "m"],
          [EmptyBody EXCEPT !.email = "nobody"]}

NextUsers ==
    \/ \E c \in Clients, b \in RegisterBodies :
           /\ nextUserId + Cardinality({d \in Clients : pc[d] = "registerSave"})
                  <= MaxUsers
           /\ RegisterFind(c, b)
    \/ \E c \in Clients : RegisterSave(c)
    \/ \E c \in Clients, u \in TokenHolders \cup {NoUser}, b \in UpdateUserBodies :
           UpdateUserFind(c, u, b)
    \/ \E c \in Clients : UpdateUserCheck(c)
    \/ \E c \in Clients : UpdateUserSave(c)
    \/ \E c \in Clients, u \in TokenHolders \cup {NoUser} : DeleteUserFind(c, u)
    \/ \E c \in Clients : DeleteUserWrite(c)

SpecUsers == Init /\ [][NextUsers]_vars

\* the statistics scenario: two registered users; one client after the
\* other creates, updates and deletes issues, deletes accounts and reads the
\* dashboard and the analytics
AnalyticsCreateBodies ==
    {IssueBody,
     [IssueBody EXCEPT !.assignedTo = 2, !.status = "Resolved"]}

AnalyticsUpdateBodies ==
    {[EmptyBody EXCEPT !.status = "Resolved"],
     [EmptyBody EXCEPT !.status = "Pending"]}

\* the scenario's requests come one after the other, from one client
AnalyticsClients == {1}

\* the User Store after MaxUsers registrations
InitAnalytics ==
    /\ issues = <<>>
    /\ nextIssueId = 1
    /\ users = [u \in UserIds |->
                   NewUser([EmptyBody EXCEPT
                               !.name = "n",
                               !.email = IF u = 1 THEN "a@x.io" ELSE "b@x.io",
                               !.password = "secret1"])]
    /\ nextUserId = MaxUsers + 1
    /\ InitClients
    /\ db = Established

NextAnalytics ==
    \/ \E c \in AnalyticsClients, u \in UserIds, b \in AnalyticsCreateBodies :
           nextIssueId <= MaxAnalyticsIssues /\ CreateIssue(c, u, b)
    \/ \E c \in AnalyticsClients, id \in 1..MaxAnalyticsIssues,
          b \in AnalyticsUpdateBodies : UpdateIssueFind(c, id, b)
    \/ \E c \in AnalyticsClients : UpdateIssueWrite(c)
    \/ \E c \in AnalyticsClients, id \in 1..MaxAnalyticsIssues :
           DeleteIssueFind(c, id)
    \/ \E c \in AnalyticsClients : DeleteIssueWrite(c)
    \/ \E c \in AnalyticsClients, u \in UserIds : DeleteUserFind(c, u)
    \/ \E c \in AnalyticsClients : DeleteUserWrite(c)
    \/ \E c \in AnalyticsClients, u \in UserIds \cup {NoUser} :
           GetDashboard(c, u)
    \/ \E c \in AnalyticsClients, u \in UserIds : GetGeneralAnalytics(c, u)
    \/ \E c \in AnalyticsClients, u \in UserIds,
          id \in UserIds \cup {InvalidId} : GetUserAnalyticsFind(c, u, id)
    \/ \E c \in AnalyticsClients : GetUserAnalyticsAggregate(c)

SpecAnalytics == InitAnalytics /\ [][NextAnalytics]_vars

\* the trend scenario: issues are created and resolved at the sampled
\* instants and the analytics are read in between.  Day 0 lies in month 1 of
\* year 0, day 330 in month 12 of year 0, days 360 and 361 in month 1 of
\* year 1.
Instants == {330, 360, 361}

TrendUpdateBodies == {[EmptyBody EXCEPT !.status = "Resolved"]}

NextTrend ==
    \/ \E c \in AnalyticsClients :
           nextIssueId <= MaxTrendIssues /\ CreateIssue(c, 1, IssueBody)
    \/ \E c \in AnalyticsClients, id \in 1..MaxTrendIssues,
          b \in TrendUpdateBodies : UpdateIssueFind(c, id, b)
    \/ \E c \in AnalyticsClients : UpdateIssueWrite(c)
    \/ \E c \in AnalyticsClients : GetGeneralAnalytics(c, 1)
    \/ \E c \in AnalyticsClients : GetUserAnalyticsFind(c, 1, 1)
    \/ \E c \in AnalyticsClients : GetUserAnalyticsAggregate(c)
    \/ \E t \in Instants : Pass(t)

SpecTrend == InitAnalytics /\ [][NextTrend]_vars

\* the top list scenario: issues created by and assigned to the two users,
\* accounts deleted, the general analytics read
TopBodies ==
    {IssueBody,
     [IssueBody EXCEPT !.assignedTo = 1],
     [IssueBody EXCEPT !.assignedTo = 2]}

NextTop ==
    \/ \E c \in AnalyticsClients, u \in UserIds, b \in TopBodies :
           nextIssueId <= MaxTopIssues /\ CreateIssue(c, u, b)
    \/ \E c \in AnalyticsClients, u \in UserIds : DeleteUserFind(c, u)
    \/ \E c \in AnalyticsClients : DeleteUserWrite(c)
    \/ \E c \in AnalyticsClients : GetGeneralAnalytics(c, 1)

SpecTop == InitAnalytics /\ [][NextTop]_vars

\* the auth scenario: two registered users; requests reach the protected
\* routes with no token, with a token that does not verify (forged or
\* expired), and with the users' tokens; logins use right and wrong passwords
Tokens == {NoToken, BadToken} \cup UserIds

ProtectedOps ==
    {"createIssue", "getDashboard", "getGeneralAnalytics", "deleteUser"}

LoginBodies ==
    {[EmptyBody EXCEPT !.email = e, !.password = p] :
        e \in {"a@x.io", "b@x.io"}, p \in {"secret1", "secret2"}}
    \cup {[EmptyBody EXCEPT !.email = "nobody", !.password = "secret1"],
          [EmptyBody EXCEPT !.email = "a@x.io"]}

NextAuth ==
    \/ \E c \in Clients, t \in Tokens, op \in ProtectedOps :
           AuthMiddleware(c, t, op)
    \/ \E c \in Clients, t \in Tokens :
           /\ AuthDenied(t) = ""
           /\ nextIssueId <= MaxAuthIssues
           /\ CreateIssue(c, Decoded(t), IssueBody)
    \/ \E c \in Clients, t \in Tokens \cup {NoUser} :
           AuthDenied(t) = "" /\ GetDashboard(c, Decoded(t))
    \/ \E c \in Clients, t \in Tokens :
           AuthDenied(t) = "" /\ GetGeneralAnalytics(c, Decoded(t))
    \/ \E c \in Clients, t \in Tokens :
           AuthDenied(t) = "" /\ DeleteUserFind(c, Decoded(t))
    \/ \E c \in Clients : DeleteUserWrite(c)
    \/ \E c \in Clients, b \in LoginBodies : Login(c, b)

SpecAuth == InitAnalytics /\ [][NextAuth]_vars

\* the issue scenario: two clients read, update and delete the issues by
\* id, with ids of stored issues, of issues not stored and a malformed id
CrudCreateBodies ==
    {IssueBody, [IssueBody EXCEPT !.assignedTo = 1]}

CrudUpdateBodies ==
    {[EmptyBody EXCEPT !.status = "Resolved"],
     [EmptyBody EXCEPT !.title = "t2", !.assignedTo = 2],
     [EmptyBody EXCEPT !.description = "d2", !.priority = "High",
                       !.severity = "Major"],
     [EmptyBody EXCEPT !.title = "t3", !.assignedTo = InvalidId]}

CrudIds == 1..MaxCrudIssues \cup {InvalidId}

NextCrud ==
    \/ \E c \in Clients, b \in CrudCreateBodies :
           nextIssueId <= MaxCrudIssues /\ CreateIssue(c, 1, b)
    \/ \E c \in Clients, id \in CrudIds : GetIssueById(c, id)
    \/ \E c \in Clients, id \in CrudIds, b \in CrudUpdateBodies :
           UpdateIssueFind(c, id, b)
    \/ \E c \in Clients : UpdateIssueWrite(c)
    \/ \E c \in Clients, id \in CrudIds : DeleteIssueFind(c, id)
    \/ \E c \in Clients : DeleteIssueWrite(c)

SpecCrud == Init /\ [][NextCrud]_vars

\* the failure scenario: one client after the other creates issues and
\* reads the dashboard and the analytics; every sub-query of a read may fail
FailureBodies == {[IssueBody EXCEPT !.assignedTo = 1, !.priority = "High"]}

NextFailure ==
    \/ \E c \in AnalyticsClients, b \in FailureBodies :
           nextIssueId <= MaxFailureIssues /\ CreateIssue(c, 1, b)
    \/ \E c \in AnalyticsClients : GetGeneralAnalyticsFanOut(c, 1)
    \/ \E c \in AnalyticsClients, u \in {NoUser, 1} : GetDashboardFanOut(c, u)
    \/ \E c \in AnalyticsClients, id \in {1, InvalidId} :
           GetUserAnalyticsFind(c, 1, id)
    \/ \E c \in AnalyticsClients : GetUserAnalyticsFanOut(c)
    \/ \E c \in AnalyticsClients :
           \E q \in SubQueries(req[c].op) : SubQueryReturns(c, q)
    \/ \E c \in AnalyticsClients :
           \E q \in SubQueries(req[c].op) : SubQueryFails(c, q)
    \/ \E c \in AnalyticsClients : FanIn(c)

SpecFailure == InitAnalytics /\ [][NextFailure]_vars

\* the interleaving scenario: client 1 reads the general analytics, each
\* sub-query at its own step, while client 2 creates, resolves and deletes
\* issues
NextFanOut ==
    \/ \E b \in FailureBodies :
           nextIssueId <= MaxFanOutIssues /\ CreateIssue(2, 1, b)
    \/ \E id \in 1..MaxFanOutIssues, b \in TrendUpdateBodies :
           UpdateIssueFind(2, id, b)
    \/ UpdateIssueWrite(2)
    \/ \E id \in 1..MaxFanOutIssues : DeleteIssueFind(2, id)
    \/ DeleteIssueWrite(2)
    \/ GetGeneralAnalyticsFanOut(1, 1)
    \/ \E q \in SubQueries(req[1].op) : SubQueryReturns(1, q)
    \/ FanIn(1)

SpecFanOut == InitAnalytics /\ [][NextFanOut]_vars

\* the two dashboards: one client after the other creates, updates,
\* reassigns and deletes issues and reads the dashboard from either handler, while time
\* passes
NextEquivalence ==
    \/ \E c \in AnalyticsClients, u \in UserIds, b \in AnalyticsCreateBodies :
           nextIssueId <= MaxAnalyticsIssues /\ CreateIssue(c, u, b)
    \/ \E c \in AnalyticsClients, id \in 1..MaxAnalyticsIssues,
          b \in AnalyticsUpdateBodies
                   \cup {[EmptyBody EXCEPT !.assignedTo = 1]} :
              UpdateIssueFind(c, id, b)
    \/ \E c \in AnalyticsClients : UpdateIssueWrite(c)
    \/ \E c \in AnalyticsClients, id \in 1..MaxAnalyticsIssues :
           DeleteIssueFind(c, id)
    \/ \E c \in AnalyticsClients : DeleteIssueWrite(c)
    \/ \E c \in AnalyticsClients, u \in UserIds \cup {NoUser} :
           GetDashboard(c, u)
    \/ \E c \in AnalyticsClients, u \in UserIds \cup {NoUser} :
           GetDashboardSequential(c, u)
    \/ Tick

SpecEquivalence == InitAnalytics /\ [][NextEquivalence]_vars

\* the start of the process: connectDB() is called once, with MONGODB_URI
\* defined or not; the event loop runs every timer that is due and every
\* connect attempt settles, so a step that stays possible is taken
InitConnect ==
    /\ issues = <<>>
    /\ nextIssueId = 1
    /\ users = <<>>
    /\ nextUserId = 1
    /\ InitClients
    /\ db \in {Connection(uri, "connecting", 0) : uri \in BOOLEAN}

NextConnect ==
    \/ ConnectFails
    \/ ConnectSucceeds
    \/ RetryFires

SpecConnect == InitConnect /\ [][NextConnect]_vars /\ WF_vars(NextConnect)

\* ================================================================ claims
Kept(i) == i \in DOMAIN issues /\ i \in DOMAIN issues'

\* client c takes the findByIdAndUpdate step of its updateIssue on a stored issue
UpdateWrites(c) ==
    /\ pc[c] = "updateWrite"
    /\ pc'[c] = "idle"
    /\ req[c].id \in DOMAIN issues

\* C1: in a sequence of updateIssue calls (each write follows its own read
\* with no write in between), once an update has moved the issue into
\* Resolved or Closed no later update changes the resolvedAt it stamped
\* (Resolved -> Closed, Closed -> Resolved and reopen-then-resolve included).
C1_ResolvedAtStampedOnce ==
    [][\A c \in Clients :
          (/\ UpdateWrites(c)
           /\ req[c].id \in moved
           /\ loc[c].status = issues[req[c].id].status
           /\ loc[c].resolvedAt = issues[req[c].id].resolvedAt)
          => issues'[req[c].id].resolvedAt = issues[req[c].id].resolvedAt]_vars

\* C2: an updateIssue that read the issue unresolved and without resolvedAt,
\* and writes Resolved or Closed after a concurrent request has stamped
\* resolvedAt, does not overwrite that resolvedAt.
C2_SecondWriterKeepsResolvedAt ==
    [][\A c \in Clients :
          (/\ UpdateWrites(c)
           /\ loc[c].resolvedAt = NoDate
           /\ loc[c].status \notin {"Resolved", "Closed"}
           /\ req[c].body.status \in {"Resolved", "Closed"}
           /\ req[c].id \in moved
           /\ issues[req[c].id].resolvedAt # NoDate)
          => issues'[req[c].id].resolvedAt = issues[req[c].id].resolvedAt]_vars

C4_RegisterConflict ==
    [][\A c \in Clients :
          LET rq == IF pc'[c] = "idle" THEN out'.req ELSE req'[c]
          IN (/\ pc[c] = "idle"
              /\ (pc'[c] # "idle" \/ out'.client = c)
              /\ rq.op = "register"
              /\ RegisterValid(rq.body)
              /\ \E u \in DOMAIN users : users[u].email = rq.body.email)
             => /\ pc'[c] = "idle"
                /\ out'.resp = After({"User.findOne"},
                                     Reply(400, "User already exists"))
                /\ out'.resp.token = NoUser
                /\ users' = users]_vars

C4_Witness ==
    /\ out.req.op = "register"
    /\ out.resp.msg = "User already exists"
    /\ \E u \in DOMAIN users : users[u].email = out.req.body.email

\* C5: an updateUser whose new email belongs to a different stored user is
\* answered 400 and leaves the User Store as it was, a supplied name
\* included; an updateUser sending the caller's own current email is never
\* answered with the email conflict.
C5_UpdateUserConflict ==
    [][\A c \in Clients :
          /\ (/\ pc[c] = "updateUserCheck"
              /\ pc'[c] # pc[c]
              /\ \E u \in DOMAIN users \ {req[c].caller} :
                     users[u].email = req[c].body.email)
             => /\ out'.resp = After({"User.findById", "User.findOne"},
                                     Reply(400, "Email already exists"))
                /\ users' = users
          /\ (/\ pc[c] = "idle"
              /\ pc'[c] # "idle"
              /\ req'[c].op = "updateUser")
             => (pc'[c] = "updateUserSave"
                    <=> req'[c].body.email \in {"", users[req'[c].caller].email})
          /\ (/\ pc[c] = "updateUserSave"
              /\ pc'[c] # pc[c])
             => out'.resp.msg # "Email already exists"]_vars

\* the conflict was answered to a request that also carried a new name
C5_Witness ==
    /\ out.req.op = "updateUser"
    /\ out.resp.msg = "Email already exists"
    /\ out.req.body.name # ""
    /\ out.req.caller \in DOMAIN users
    /\ users[out.req.caller].name # out.req.body.name

\* C6: an issue has no resolvedAt before the first update that moves its
\* status into Resolved or Closed, whatever createIssue was sent.
C6_ResolvedAtAbsentUntilMoved ==
    \A i \in DOMAIN issues : issues[i].resolvedAt # NoDate => i \in moved

\* C7: every issue with resolvedAt set has createdAt <= resolvedAt.
C7_ResolutionTimeNonNegative ==
    \A i \in DOMAIN issues :
        issues[i].resolvedAt # NoDate
            => issues[i].createdAt <= issues[i].resolvedAt

\* C8: a created issue's createdBy is the authenticated caller, whatever the
\* body's createdBy, and no step changes the createdBy of a stored issue.
C8_CreatedByIsCallerAndImmutable ==
    [][/\ \A i \in DOMAIN issues :
             Kept(i) => issues'[i].createdBy = issues[i].createdBy
       /\ \A i \in DOMAIN issues' \ DOMAIN issues :
             /\ out'.req.op = "createIssue"
             /\ out'.resp.id = i
             /\ issues'[i].createdBy = out'.req.caller]_vars

\* an update carrying a foreign createdBy has just been applied to an issue
\* that was itself created from a body carrying a foreign createdBy (only
\* that body sets resolvedAt without an update having moved the issue)
C8_Witness ==
    /\ out.req.op = "updateIssue"
    /\ out.resp.msg = "issue"
    /\ out.req.body.createdBy # NoUser
    /\ out.req.id \in DOMAIN issues
    /\ issues[out.req.id].createdBy # out.req.body.createdBy
    /\ issues[out.req.id].resolvedAt # NoDate
    /\ out.req.id \notin moved

\* C9: every stored issue has its status, priority and severity in the
\* schema's enumerations.
C9_EnumsHold ==
    \A i \in DOMAIN issues :
        /\ issues[i].status \in IssueStatus
        /\ issues[i].priority \in IssuePriority
        /\ issues[i].severity \in IssueSeverity

\* the domain ordering of priorities: Critical > High > Medium > Low
PriorityRank(p) ==
    CASE p = "Critical" -> 4
      [] p = "High" -> 3
      [] p = "Medium" -> 2
      [] p = "Low" -> 1
      [] OTHER -> 0

\* entry a may stand before entry b: higher domain priority first, then
\* createdAt descending
DomainMayPrecede(a, b) ==
    \/ PriorityRank(a.priority) > PriorityRank(b.priority)
    \/ /\ a.priority = b.priority
       /\ a.createdAt >= b.createdAt

\* C10: the dashboard's high priority list holds only issues assigned to the
\* caller with priority High/Critical and status not Closed, at most 5 of
\* them, every Critical before every High and then createdAt descending,
\* and it is the head of that ordering over all the qualifying issues.
C10_HighPriorityListOrdered ==
    (out.req.op = "getDashboard" /\ out.resp.code = 200) =>
        LET l == out.resp.list
            u == out.req.caller
            listed == {l[k].id : k \in 1..Len(l)}
            qualifying == {i \in DOMAIN issues :
                              /\ issues[i].assignedTo = u
                              /\ issues[i].priority \in {"High", "Critical"}
                              /\ issues[i].status # "Closed"}
        IN /\ listed \subseteq qualifying
           /\ Len(l) <= 5
           /\ Cardinality(listed) = Len(l)
           /\ \A j, k \in 1..Len(l) : j < k => DomainMayPrecede(l[j], l[k])
           /\ \A i \in qualifying \ listed :
                  /\ Len(l) = 5
                  /\ \A k \in 1..Len(l) : DomainMayPrecede(l[k], Selected(i))

\* the counts of a breakdown list, added up
RECURSIVE CountSum(_)
CountSum(l) == IF l = <<>> THEN 0 ELSE Head(l).count + CountSum(Tail(l))

\* C11: in every response the counts of the status breakdown add up to the
\* total of the same scope: all issues in the general analytics, the created
\* and the assigned scope in the user analytics, the created scope (myIssues)
\* in the dashboard.
C11_StatusBreakdownSumsToTotal ==
    LET d == out.resp.data
    IN /\ out.resp.msg = "analytics"
              => CountSum(d.overview.status) = d.overview.total
       /\ out.resp.msg = "userAnalytics"
              => /\ CountSum(d.created.status) = d.created.total
                 /\ CountSum(d.assigned.status) = d.assigned.total
       /\ out.resp.msg = "dashboard"
              => CountSum(d.status) = d.myIssues

\* a user's analytics over two created issues, one of them holding a status
\* outside the enumeration, and at least one assigned issue
C11_Witness ==
    /\ out.resp.msg = "userAnalytics"
    /\ out.resp.data.created.total = 2
    /\ Len(out.resp.data.created.status) = 2
    /\ \E k \in 1..2 : out.resp.data.created.status[k].key \notin IssueStatus
    /\ out.resp.data.assigned.total >= 1

\* C12: getDashboard(u) reports myIssues = the number of issues created by
\* u, assignedToMe = the number assigned to u, and in charts.byStatus, for
\* each of the four statuses, the number of u's created issues with that
\* status (0 when none); an issue created by and assigned to u counts in
\* both totals.
C12_DashboardCounts ==
    (out.req.op = "getDashboard" /\ out.resp.code = 200) =>
        LET u == out.req.caller
            d == out.resp.data
        IN /\ d.myIssues =
                  Cardinality({i \in DOMAIN issues : issues[i].createdBy = u})
           /\ d.assignedToMe =
                  Cardinality({i \in DOMAIN issues : issues[i].assignedTo = u})
           /\ DOMAIN d.byStatus = IssueStatus
           /\ \A st \in IssueStatus :
                  d.byStatus[st] =
                      Cardinality({i \in DOMAIN issues :
                                      /\ issues[i].createdBy = u
                                      /\ issues[i].status = st})

\* the dashboard of a user who created one of the issues assigned to them,
\* is assigned another one created by someone else, and has no Open issue
C12_Witness ==
    /\ out.req.op = "getDashboard"
    /\ out.resp.code = 200
    /\ \E i, j \in DOMAIN issues :
           /\ issues[i].createdBy = out.req.caller
           /\ issues[i].assignedTo = out.req.caller
           /\ issues[j].createdBy # out.req.caller
           /\ issues[j].assignedTo = out.req.caller
    /\ out.resp.data.byStatus["Open"] = 0
    /\ out.resp.data.byStatus["Resolved"] = 1

\* the statistics m of a scope without issues
ZeroScope(m) ==
    /\ m.total = 0
    /\ m.open = 0 /\ m.inProgress = 0 /\ m.resolved = 0 /\ m.closed = 0
    /\ m.timeBased = [today |-> 0, thisWeek |-> 0, thisMonth |-> 0, thisYear |-> 0]
    /\ m.status = <<>> /\ m.priority = <<>> /\ m.severity = <<>>
    /\ m.resolution = [totalResolved |-> 0, avgResolutionDays |-> 0,
                       minResolutionDays |-> 0, maxResolutionDays |-> 0,
                       resolutionRate |-> <<0>>]
    /\ m.trend = <<>>

\* C13: when a scope has no issue (no issue at all, or a user with no
\* created or no assigned issue) the dashboard, the general analytics and
\* the user analytics answer 200 with every count of the scope 0, every
\* breakdown empty, resolutionRate "0" and the resolution figures 0.
C13_EmptyScopeAllZero ==
    LET d == out.resp.data
        u == out.req.caller
    IN /\ (out.req.op = "getGeneralAnalytics" /\ DOMAIN issues = {})
              => /\ out.resp.code = 200
                 /\ ZeroScope(d.overview)
                 /\ d.topCreators = <<>>
                 /\ d.topAssignees = <<>>
       /\ (out.req.op = "getUserAnalytics" /\ out.resp.msg = "userAnalytics"
               /\ CreatedBy(out.req.id) = {})
              => /\ out.resp.code = 200
                 /\ ZeroScope(d.created)
       /\ (out.req.op = "getUserAnalytics" /\ out.resp.msg = "userAnalytics"
               /\ AssignedTo(out.req.id) = {})
              => /\ out.resp.code = 200
                 /\ d.assigned = [total |-> 0, unresolved |-> 0, status |-> <<>>]
       /\ (out.req.op = "getDashboard" /\ u # NoUser /\ CreatedBy(u) = {})
              => /\ out.resp.code = 200
                 /\ d.myIssues = 0
                 /\ d.myOpenIssues = 0 /\ d.myInProgressIssues = 0
                 /\ d.myResolvedIssues = 0 /\ d.myClosedIssues = 0
                 /\ d.timeBased = [today |-> 0, thisWeek |-> 0, thisMonth |-> 0]
                 /\ d.status = <<>> /\ d.priority = <<>> /\ d.severity = <<>>
                 /\ \A st \in IssueStatus : d.byStatus[st] = 0
       /\ (out.req.op = "getDashboard" /\ u # NoUser /\ AssignedTo(u) = {})
              => /\ out.resp.code = 200
                 /\ d.assignedToMe = 0
                 /\ d.assignedOpen = 0 /\ d.assignedInProgress = 0
                 /\ d.unresolvedAssigned = 0

\* the analytics of a user who created nothing while the store holds issues
\* assigned to them
C13_Witness ==
    /\ out.resp.msg = "userAnalytics"
    /\ CreatedBy(out.req.id) = {}
    /\ AssignedTo(out.req.id) # {}
    /\ out.resp.data.created.resolution.resolutionRate = <<0>>

\* C14: the monthly trend of the general and of the user analytics is
\* strictly ascending by (year, month), so without duplicate months; every
\* entry counts at least one issue; no issue created before now minus one
\* year is counted; every issue of the scope created at or after now minus
\* one year is counted in exactly one entry, that of its month.
C14_MonthlyTrend ==
    out.resp.msg \in {"analytics", "userAnalytics"} =>
        LET d == out.resp.data
            t == IF out.resp.msg = "analytics"
                 THEN d.overview.trend ELSE d.created.trend
            S == IF out.resp.msg = "analytics"
                 THEN DOMAIN issues
                 ELSE {i \in DOMAIN issues : issues[i].createdBy = out.req.id}
            recent == {i \in S : issues[i].createdAt >= YearStart(d.now)}
            In(i, k) == /\ YearOf(issues[i].createdAt) = t[k].year
                        /\ MonthOf(issues[i].createdAt) = t[k].month
        IN /\ \A j, k \in 1..Len(t) :
                  j < k => \/ t[j].year < t[k].year
                           \/ t[j].year = t[k].year /\ t[j].month < t[k].month
           /\ \A k \in 1..Len(t) :
                  /\ t[k].count >= 1
                  /\ t[k].count = Cardinality({i \in recent : In(i, k)})
           /\ \A i \in recent :
                  Cardinality({k \in 1..Len(t) : In(i, k)}) = 1
           /\ CountSum(t) = Cardinality(recent)

\* a trend of two months in two different years, read while the store holds
\* an issue created more than a year before
C14_Witness ==
    /\ out.resp.msg = "analytics"
    /\ Len(out.resp.data.overview.trend) = 2
    /\ out.resp.data.overview.trend[1].year < out.resp.data.overview.trend[2].year
    /\ out.resp.data.overview.trend[1].month > out.resp.data.overview.trend[2].month
    /\ \E i \in DOMAIN issues :
           issues[i].createdAt < YearStart(out.resp.data.now)

\* a getGeneralAnalytics answers right after the answer of another one:
\* only time may have passed in between, no store was written
Reread ==
    /\ out.req.op = "getGeneralAnalytics"
    /\ out'.req.op = "getGeneralAnalytics"

\* the lists a and b hold the same entries
SameEntries(a, b) ==
    /\ Len(a) = Len(b)
    /\ {a[k] : k \in 1..Len(a)} = {b[k] : k \in 1..Len(b)}

\* C16 as stated: two consecutive getGeneralAnalytics calls with no write
\* between them return identical responses: the same counts, the same
\* breakdown lists in the same order, the same time-window counts, the same
\* trend and the same top lists.
C16_RereadIdentical ==
    [][Reread => /\ out'.resp.data.overview = out.resp.data.overview
                 /\ out'.resp.data.topCreators = out.resp.data.topCreators
                 /\ out'.resp.data.topAssignees = out.resp.data.topAssignees]_vars

\* C16, amended: two consecutive getGeneralAnalytics calls with no write
\* between them return the same total, status counts and resolution figures
\* and the same breakdown and top-list entries, where entries with equal
\* counts may come in a different order; the time-window counts and the
\* trend are the same when both calls read the same clock.
C16_RereadSameUpToTiesAndClock ==
    [][Reread =>
          LET a == out.resp.data.overview
              b == out'.resp.data.overview
          IN /\ b.total = a.total
             /\ b.open = a.open /\ b.inProgress = a.inProgress
             /\ b.resolved = a.resolved /\ b.closed = a.closed
             /\ b.resolution = a.resolution
             /\ SameEntries(a.status, b.status)
             /\ SameEntries(a.priority, b.priority)
             /\ SameEntries(a.severity, b.severity)
             /\ SameEntries(out.resp.data.topCreators, out'.resp.data.topCreators)
             /\ SameEntries(out.resp.data.topAssignees,
                            out'.resp.data.topAssignees)
             /\ out'.resp.data.now = out.resp.data.now
                    => /\ b.timeBased = a.timeBased
                       /\ b.trend = a.trend]_vars

\* an answer read while an issue was inside the one-year window, with the
\* clock now past that window and a resolved issue in the store: the next
\* call reads other window counts and another trend
C16_Witness ==
    /\ out.req.op = "getGeneralAnalytics"
    /\ out.resp.data.now < clock
    /\ out.resp.data.overview.timeBased.thisYear
           > TimeBased(DOMAIN issues, clock).thisYear
    /\ out.resp.data.overview.resolution.totalResolved >= 1
    /\ out.resp.data.overview.resolution.maxResolutionDays > 0

Starts(c) == pc[c] = "idle" /\ (pc'[c] # "idle" \/ out'.client = c)

Started(c) == IF pc'[c] = "idle" THEN out'.req ELSE req'[c]

\* C17: getUserAnalytics answers 400 to a userId that is no ObjectId before
\* any store query, answers 404 to a well-formed userId without a user
\* record after the user lookup alone, with no issue aggregation, and for
\* an existing user answers the analytics with the user's id, name and
\* email and no other field of the user record.
C17_UserAnalyticsGuards ==
    [][\A c \in Clients :
          /\ (Starts(c) /\ Started(c).op = "getUserAnalytics")
                 => IF Started(c).id < 1
                    THEN /\ pc'[c] = "idle"
                         /\ out'.resp = Reply(400, "Invalid user ID")
                         /\ out'.resp.ops = {}
                    ELSE IF Started(c).id \notin DOMAIN users
                    THEN /\ pc'[c] = "idle"
                         /\ out'.resp.code = 404
                         /\ out'.resp.msg = "User not found"
                         /\ out'.resp.ops = {"User.findById"}
                         /\ out'.resp.data = <<>>
                    ELSE pc'[c] = "userAnalytics"
          /\ (pc[c] = "userAnalytics" /\ pc'[c] = "idle")
                 => /\ out'.resp.code = 200
                    /\ out'.resp.data.user =
                           [id |-> req[c].id, name |-> loc[c].name,
                            email |-> loc[c].email]
                    /\ req[c].id \in DOMAIN users
                           => /\ out'.resp.data.user.name = users[req[c].id].name
                              /\ out'.resp.data.user.email = users[req[c].id].email]_vars

\* a well-formed id whose user has deleted the account, answered 404 while
\* the store holds issues of that user
C17_Witness ==
    /\ out.req.op = "getUserAnalytics"
    /\ out.resp.code = 404
    /\ out.req.id >= 1
    /\ \E i \in DOMAIN issues : issues[i].createdBy = out.req.id

\* C18: deleteUser removes the caller's user record and nothing else: the
\* issues created by or assigned to the user stay as they are, and no other
\* user record is removed or changed.
C18_DeleteUserFrame ==
    [][\A c \in Clients :
          /\ (Starts(c) /\ Started(c).op = "deleteUser")
                 => /\ users' = users
                    /\ issues' = issues
          /\ (pc[c] = "deleteUserWrite" /\ pc'[c] = "idle")
                 => /\ issues' = issues
                    /\ DOMAIN users' = DOMAIN users \ {req[c].caller}
                    /\ \A v \in DOMAIN users' : users'[v] = users[v]
                    /\ nextUserId' = nextUserId
                    /\ nextIssueId' = nextIssueId]_vars

\* an account was deleted while the other account exists and the store
\* holds an issue created by and an issue assigned to the deleted user
C18_Witness ==
    /\ out.req.op = "deleteUser"
    /\ out.resp.code = 200
    /\ out.req.caller \notin DOMAIN users
    /\ DOMAIN users # {}
    /\ \E i, j \in DOMAIN issues :
           /\ issues[i].createdBy = out.req.caller
           /\ issues[j].assignedTo = out.req.caller

C20_Unauthenticated401 ==
    [][\A c \in Clients :
          (Starts(c) /\ Started(c).op \in ProtectedOps)
          => LET rq == Started(c)
             IN /\ rq.auth \in {NoToken, BadToken}
                       => /\ pc'[c] = "idle"
                          /\ out'.resp =
                                 Reply(401, IF rq.auth = NoToken
                                            THEN "No token, authorization denied"
                                            ELSE "Token is not valid")
                          /\ out'.resp.ops = {}
                          /\ issues' = issues /\ users' = users
                          /\ nextIssueId' = nextIssueId
                          /\ nextUserId' = nextUserId
                /\ rq.auth = NoUser
                       => /\ rq.op = "getDashboard"
                          /\ pc'[c] = "idle"
                          /\ out'.resp = Reply(401, "User not authenticated")
                          /\ out'.resp.ops = {}
                          /\ issues' = issues /\ users' = users]_vars

\* a token that does not verify was refused on createIssue while the store
\* still had room for the issue and held the accounts
C20_Witness ==
    /\ out.req.op = "createIssue"
    /\ out.req.auth = BadToken
    /\ out.resp.code = 401
    /\ issues = <<>>
    /\ DOMAIN users = UserIds

\* C21: getIssueById, updateIssue and deleteIssue called with an id that
\* matches no stored issue, or with a malformed id, answer 404 'Issue not
\* found' and leave the Issue Store as it was; deleteIssue called on a stored
\* issue goes on to its delete, after which that issue is not stored and
\* every other issue is stored unchanged.
C21_NotFoundAndDeleteOne ==
    [][\A c \in Clients :
          /\ (/\ Starts(c)
              /\ Started(c).op \in {"getIssueById", "updateIssue", "deleteIssue"}
              /\ Started(c).id \notin DOMAIN issues)
             => /\ pc'[c] = "idle"
                /\ out'.resp.code = 404
                /\ out'.resp.msg = "Issue not found"
                /\ issues' = issues
                /\ nextIssueId' = nextIssueId
          /\ (/\ Starts(c)
              /\ Started(c).op = "deleteIssue"
              /\ Started(c).id \in DOMAIN issues)
             => /\ pc'[c] = "deleteWrite"
                /\ issues' = issues
          /\ (pc[c] = "deleteWrite" /\ pc'[c] = "idle")
             => /\ out'.resp.code = 200
                /\ DOMAIN issues' = DOMAIN issues \ {req[c].id}
                /\ \A i \in DOMAIN issues' : issues'[i] = issues[i]]_vars

\* a malformed id was answered 404 by deleteIssue while the store holds one
\* issue, the other of the two created having been deleted
C21_Witness ==
    /\ out.req.op = "deleteIssue"
    /\ out.req.id = InvalidId
    /\ out.resp.code = 404
    /\ Cardinality(DOMAIN issues) = 1
    /\ nextIssueId = MaxCrudIssues + 1

\* C25: an updateIssue that found the issue answers either with the updated
\* issue or with 404, also when a concurrent deleteIssue has removed the
\* issue between its findById and its findByIdAndUpdate: it never answers
\* 200 with an empty (null) issue, and it never stores the deleted issue
\* again.
C25_UpdateNeverAnswersNull ==
    [][\A c \in Clients :
          (pc[c] = "updateWrite" /\ pc'[c] = "idle")
          => /\ \/ /\ out'.resp.code = 200
                   /\ out'.resp.id = req[c].id
                   /\ req[c].id \in DOMAIN issues'
                \/ out'.resp.code = 404
             /\ req[c].id \notin DOMAIN issues
                    => req[c].id \notin DOMAIN issues']_vars

\* C26: every stored issue whose status is Resolved or Closed has resolvedAt
\* set, and so the general analytics report resolution.totalResolved at
\* least resolvedIssues + closedIssues, after any sequence of createIssue
\* (whose body may carry a status) and updateIssue requests.
C26_ResolvedHasResolvedAt ==
    /\ \A i \in DOMAIN issues :
           issues[i].status \in {"Resolved", "Closed"}
               => issues[i].resolvedAt # NoDate
    /\ out.resp.msg = "analytics"
           => out.resp.data.overview.resolution.totalResolved
                  >= out.resp.data.overview.resolved
                         + out.resp.data.overview.closed

\* the six fields updateIssue takes from the body
UpdatableFields ==
    {"title", "description", "status", "priority", "severity", "assignedTo"}

\* field f is not supplied by body b (absent or empty)
NotSupplied(b, f) == IF f = "assignedTo" THEN b[f] = NoUser ELSE b[f] = ""

\* C29: updateIssue changes, of the issue it is sent for, only fields among
\* title, description, status, priority, severity and assignedTo that the
\* body supplies with a non-empty value, and then to the supplied value,
\* plus resolvedAt: a field not supplied keeps its value, createdBy and
\* createdAt keep theirs, no other issue is added, removed or modified, and
\* an assignedTo that is set is never cleared.  The read step of the handler
\* changes nothing.
C29_UpdateIssueFrame ==
    [][\A c \in Clients :
          /\ (Starts(c) /\ Started(c).op = "updateIssue") => issues' = issues
          /\ (pc[c] = "updateWrite" /\ pc'[c] = "idle")
             => LET id == req[c].id
                    b == req[c].body
                IN /\ DOMAIN issues' = DOMAIN issues
                   /\ \A i \in DOMAIN issues \ {id} : issues'[i] = issues[i]
                   /\ id \in DOMAIN issues
                          => /\ \A f \in UpdatableFields :
                                    /\ issues'[id][f] \in {issues[id][f], b[f]}
                                    /\ NotSupplied(b, f)
                                           => issues'[id][f] = issues[id][f]
                             /\ issues'[id].createdBy = issues[id].createdBy
                             /\ issues'[id].createdAt = issues[id].createdAt
                             /\ issues[id].assignedTo # NoUser
                                    => issues'[id].assignedTo # NoUser
                             /\ out'.resp.code = 200
                                    => \A f \in UpdatableFields :
                                           ~NotSupplied(b, f)
                                               => issues'[id][f] = b[f]]_vars

\* an update supplying a new title and a new assignee was applied to an
\* issue that had an assignee, keeping its description, while a second issue
\* is stored
C29_Witness ==
    /\ out.req.op = "updateIssue"
    /\ out.resp.msg = "issue"
    /\ out.req.body.title = "t2"
    /\ out.req.id = 2
    /\ DOMAIN issues = {1, 2}
    /\ issues[2].title = "t2"
    /\ issues[2].assignedTo = 2
    /\ issues[2].description = "d"
    /\ issues[1].assignedTo = 1

\* C23: when the connection cannot be established connectDB stops after a
\* bounded number of retries: from some point on it is neither awaiting a
\* connect attempt nor holding a timer for its next run, MONGODB_URI defined
\* or not.
C23_ConnectStopsRetrying ==
    <>[](db.state \notin {"connecting", "retryWait"})

\* C22: when a sub-query of getGeneralAnalytics, getUserAnalytics or
\* getDashboard fails, whichever it is and whichever of the others have
\* returned, the request is answered 500 'Server error' with no statistics
\* at all, the handler is finished with the request (nothing is left that
\* could send a second response) and no store is written; a 200 is sent
\* only when every sub-query has returned.
C22_FailedSubQueryIs500 ==
    [][\A c \in Clients :
          (pc[c] = "fanOut" /\ pc'[c] = "idle")
          => /\ out'.client = c
             /\ out'.req = req[c]
             /\ req'[c] = NoReq
             /\ loc'[c] = NoLoc
             /\ issues' = issues
             /\ users' = users
             /\ IF DOMAIN loc[c].parts = SubQueries(req[c].op)
                THEN out'.resp.code = 200
                ELSE /\ out'.resp.code = 500
                     /\ out'.resp.msg = "Server error"
                     /\ out'.resp.data = <<>>
                     /\ out'.resp.list = <<>>]_vars

\* a sub-query of getUserAnalytics failed while the store holds two issues
\* created by and assigned to the user asked for
C22_Witness ==
    /\ out.req.op = "getUserAnalytics"
    /\ out.resp.code = 500
    /\ out.resp.ops = {"User.findById", "Issue.aggregate"}
    /\ Cardinality(CreatedBy(out.req.id)) = 2
    /\ Cardinality(AssignedTo(out.req.id)) = 2

\* the percentage strings of a breakdown list lie between "0" and "100.0"
PercentagesInRange(l) ==
    \A k \in 1..Len(l) :
        \/ l[k].percentage = <<0>>
        \/ /\ Len(l[k].percentage) = 2
           /\ l[k].percentage[1] >= 0
           /\ \/ l[k].percentage[1] < 100
              \/ l[k].percentage = <<100, 0>>

\* C24: every response of getGeneralAnalytics is consistent in itself, also
\* when issues are created, updated or deleted between its sub-queries: the
\* counts of the status breakdown add up to overview.totalIssues and every
\* percentage of the three breakdowns and the resolution rate lies between 0
\* and 100.
C24_AnalyticsConsistentUnderWrites ==
    LET d == out.resp.data
    IN out.resp.msg = "analytics"
           => /\ CountSum(d.overview.status) = d.overview.total
              /\ PercentagesInRange(d.overview.status)
              /\ PercentagesInRange(d.overview.priority)
              /\ PercentagesInRange(d.overview.severity)
              /\ PercentagesInRange(
                     <<[percentage |-> d.overview.resolution.resolutionRate]>>)

\* C27: on every Issue Store, for every user and at the same instant, the
\* sequential handler and the $facet handler of getDashboard can send the
\* same statistics (userStats, timeBased, the three breakdowns with their
\* percentages, charts.byStatus) and the same high priority lists; and a
\* dashboard just sent by either handler is one the other could have sent.
C27_DashboardsEquivalent ==
    /\ \A u \in UserIds :
           SequentialDashboardData(u, clock) = DashboardData(u, clock)
    /\ out.resp.msg = "dashboard"
           => /\ out.resp.data \in DashboardData(out.req.caller, clock)
              /\ out.resp.data \in SequentialDashboardData(out.req.caller, clock)

\* the sequential handler has answered a user who created two issues with
\* different statuses, one of them before today, and is assigned one issue
C27_Witness ==
    /\ out.resp.msg = "dashboard"
    /\ "Issue.countDocuments" \in out.resp.ops
    /\ out.resp.data.myIssues = 2
    /\ out.resp.data.assignedToMe = 1
    /\ Len(out.resp.data.status) = 2
    /\ out.resp.data.timeBased.today = 1
    /\ out.resp.data.unresolvedAssigned = 0

\* the issue document d has u as its creator or as its assignee
Involves(u, d) == d.createdBy = u \/ d.assignedTo = u

\* the step leaves the issues that involve u, before or after it, as they are
SameIssuesOf(u) ==
    /\ \A i \in DOMAIN issues :
           Involves(u, issues[i]) => i \in DOMAIN issues' /\ issues'[i] = issues[i]
    /\ \A i \in DOMAIN issues' :
           Involves(u, issues'[i]) => i \in DOMAIN issues /\ issues[i] = issues'[i]

\* C28: a step that creates, updates or deletes issues none of which has u
\* as creator or assignee, before or after the step, leaves what
\* getDashboard(u) can answer at the same instant unchanged: the statistics
\* and the high priority list.
C28_DashboardOwnIssuesOnly ==
    [][\A u \in UserIds :
          (issues' # issues /\ SameIssuesOf(u) /\ clock' = clock)
          => /\ DashboardData(u, clock)' = DashboardData(u, clock)
             /\ HighPriorityAssigned(u)' = HighPriorityAssigned(u)]_vars

\* an issue created by user 1 and assigned to nobody has just been updated
\* while user 2 has an issue of their own
C28_Witness ==
    /\ out.req.op = "updateIssue"
    /\ out.resp.code = 200
    /\ out.resp.id \in DOMAIN issues
    /\ ~Involves(2, issues[out.resp.id])
    /\ out.req.body.assignedTo = NoUser
    /\ \E i \in DOMAIN issues : issues[i].createdBy = 2 /\ issues[i].assignedTo = 2

====
